---- MODULE Spec2Model ----
(***************************************************************************)
(* A model of the Luma compiler's multi-module code generator and driver.  *)
(*                                                                         *)
(* Spec       the codegen pipeline of generate_llvm_code_modules: the      *)
(*            three passes of codegen_stmt_program_multi_module, the       *)
(*            depth-first walk of process_module_codegen_recursive, object *)
(*            emission and linking.                                        *)
(* SpecBuild  run_build: the module list is filled from the files of the   *)
(*            command line, the main file and the main module's @use       *)
(*            directives, then typechecked and handed to the code          *)
(*            generator.                                                   *)
(* SpecDecl   the three places that declare another module's function in  *)
(*            the current IR module: codegen_stmt_use, codegen_module_access*)
(*            and the method-call branch of codegen_expr_call.             *)
(* SpecField  codegen_expr_struct_access: the five handlers of obj.field   *)
(*            and the field caches they share.                             *)
(* SpecIndex  the element type of pointer reads and writes: the pointer    *)
(*            and member paths of codegen_expr_index, codegen_expr_deref   *)
(*            and the index branch of codegen_expr_assignment.             *)
(* SpecCache  the symbol, struct and field caches: add_symbol_to_module,   *)
(*            cache_symbol, lookup_cached_symbol, cache_struct_field,      *)
(*            find_struct_by_field_cached and preprocess_all_modules.      *)
(* SpecEmit   compile_modules_to_objects and its workers, thread by        *)
(*            thread.                                                      *)
(* SpecLink   link_object_files and the commands it builds.                *)
(* SpecThreads  get_compile_thread_count, as a function of the             *)
(*            environment.                                                 *)
(* SpecResolve  resolve_import_path, as a function of the files present.   *)
(* SpecAssign  the member branch of codegen_expr_assignment next to the    *)
(*            read of the same obj.field.                                  *)
(* SpecSizeof  codegen_expr_sizeof, as a function of the type.             *)
(* SpecMember  codegen_expr_member_access_enhanced for a runtime access    *)
(*            X.m, as a function of the scope and the unit list.           *)
(***************************************************************************)
EXTENDS Integers, Sequences, FiniteSets, TLC

\* ------------------------------------------------------------------ bounds
\* Modules of one Program node.
MaxModules == 3
\* @use directives of one Program node (all modules together).
MaxUses == 2
\* Frames of process_module_codegen_recursive the C stack holds before the
\* process dies of stack exhaustion (always more than MaxModules).
MaxDepth == 5
\* @use directives of the main file handed to run_build.
MaxImports == 2
\* Files named on the command line besides the main file.
MaxFiles == 1
\* Expressions and directives lowered in one lowering context.
MaxLowerings == 3
\* Member accesses lowered against one set of struct types.
MaxAccesses == 2
\* Index, deref and index-assignment expressions lowered in one scope.
MaxIndexed == 2
\* Index levels of one expression: p[i], p[i][j].
MaxLevels == 2
\* Symbols added to the units whose symbols are cached.
MaxSymbols == 3
\* Module units handed to compile_modules_to_objects.
MaxEmitUnits == 3
\* Module units whose object files link_object_files lists.
MaxLinkUnits == 17
\* Characters of the value of LUMA_COMPILE_THREADS.
MaxEnvLen == 2
\* Fields of a struct sizeof is applied to.
MaxFields == 2
\* Elements of an array sizeof is applied to.
MaxArrayLen == 2

NULL == "<null>"

\* The module names source files declare with @module.
ModNames == {"main", "a", "b"}

Min(S) == CHOOSE x \in S : \A y \in S : x <= y

\* ------------------------------------------------------------ the program
\* The alias a @use of a module carries: `@use "a" as x`, plain `@use "b"`.
UseAlias(target) == IF target = "a" THEN "x" ELSE NULL

\* create_use_node: a @use directive.
create_use_node(module_name, alias) ==
  [module_name |-> module_name, alias |-> alias]

\* The declarations of a module's body (the statements that are no @use).
\* ret is the return type kind of a function, or the type of a global; cc is
\* the calling convention the definition is given.
BodyOf(name) ==
  CASE name = "main" ->
         << [name |-> "main", is_function |-> TRUE, is_public |-> FALSE, ret |-> "i64", cc |-> "ccc"] >>
    [] name = "a" ->
         << [name |-> "f", is_function |-> TRUE, is_public |-> TRUE, ret |-> "i64", cc |-> "ccc"],
            [name |-> "g", is_function |-> TRUE, is_public |-> FALSE, ret |-> "i64", cc |-> "ccc"],
            [name |-> "v", is_function |-> FALSE, is_public |-> TRUE, ret |-> "i64", cc |-> "ccc"] >>
    [] OTHER ->
         << [name |-> "f", is_function |-> TRUE, is_public |-> TRUE, ret |-> "struct",
            cc |-> "ccc"] >>

\* create_module_node: a module with its @use directives and its body.
create_module_node(name, uses) ==
  [name |-> name, uses |-> uses, body |-> BodyOf(name)]

\* The @use directives of module i, in source order, when directive k of the
\* program belongs to module owner[k] and names target[k].
UsesOf(i, owner, target) ==
  LET all == [k \in 1..Len(owner) |-> <<owner[k], target[k]>>]
      own == SelectSeq(all, LAMBDA p : p[1] = i)
  IN  [k \in 1..Len(own) |-> create_use_node(own[k][2], UseAlias(own[k][2]))]

ProgramOf(names, owner, target) ==
  [i \in 1..Len(names) |-> create_module_node(names[i], UsesOf(i, owner, target))]

NonDecreasing(f) == \A k \in 1..(Len(f) - 1) : f[k] <= f[k + 1]

\* -------------------------------------------------------------- variables
VARIABLES
  modules,         \* node->stmt.program.modules
  units,           \* ctx->modules, the linked list, head first
  current_module,  \* ctx->current_module (a module name, or NULL)
  pc,              \* position in generate_llvm_code_modules
  i,               \* loop index of the running pass
  dep_info,        \* ModuleDependencyInfo array of Pass 3
  stack,           \* frames of process_module_codegen_recursive, top last
  emitted,         \* <<module index, statement index>> per codegen_stmt call
  diag,            \* diagnostics printed to stderr, in order
  cache_log,       \* one entry per call of preprocess_all_modules
  live,            \* what is allocated: "ctx", "caches"
  ret              \* how each function of the pipeline returned

cgVars == <<modules, units, current_module, pc, i, dep_info, stack,
            emitted, diag, cache_log, live, ret>>

VARIABLES
  config,          \* BuildConfig: files, is_document
  sources,         \* the source files on disk: the @use directives of each
  loaded,          \* run_build's modules array: module names, in order
  bpc,             \* position in run_build
  bj,              \* loop index of the running loop of run_build
  bout,            \* what run_build printed and returned
  report           \* the shared error reporter and the stages run so far

bdVars == <<config, sources, loaded, bpc, bj, bout, report>>

VARIABLES
  struct_types,    \* ctx->struct_types, the linked list, head first
  field_cache,     \* struct_access.c's field_cache: the FieldAccessCache entries
  field_to_struct, \* module_handles.c's field_to_struct_buckets: name -> struct
  access,          \* the member access lowered last and what came of it
  accesses         \* member accesses lowered so far

fldVars == <<struct_types, field_cache, field_to_struct, access, accesses>>

VARIABLES
  symbols,         \* the variables in scope: name -> LLVM_Symbol
  lowered,         \* the index, deref or index assignment lowered last
  lowerings        \* expressions lowered so far

idxVars == <<symbols, lowered, lowerings>>

VARIABLES
  cache_units,     \* the units whose symbols are cached, head first
  table_size,      \* SYMBOL_HASH_SIZE of the build
  symbol_cache,    \* global_symbol_cache: allocated or not, and its buckets
  struct_cache,    \* global_struct_cache: struct name -> StructInfo
  cpc,             \* "filling", or "preprocessed" right after preprocess_all_modules
  looked_up        \* the lookup made last: the name and both answers

cacheVars == <<cache_units, table_size, symbol_cache, struct_cache, cpc, looked_up>>

VARIABLES
  emit_units,      \* ctx->modules as compile_modules_to_objects sees it
  thread_count,    \* compile_modules_to_objects' thread_count, clamped
  tasks,           \* the ModuleCompileTask array
  threads,         \* the pthread_t array: what each handle stands for
  workers,         \* each compile_module_worker: position and what it holds
  batch_start,     \* first index of the running batch, from 0
  ei,              \* the loop index i of compile_modules_to_objects, from 0
  overall_success, \* compile_modules_to_objects' overall_success
  attempted,       \* the tasks generate_module_object_file was called for
  epc,             \* position of the driver in compile_modules_to_objects
  eret             \* what compile_modules_to_objects returned

emitVars == <<emit_units, thread_count, tasks, threads, workers, batch_start, ei,
              overall_success, attempted, epc, eret>>

VARIABLES
  link_in,         \* link_object_files' arguments and the units it walks
  commands,        \* the commands handed to system(), in order
  lpc,             \* position in link_object_files
  lret             \* what link_object_files returned

linkVars == <<link_in, commands, lpc, lret>>

VARIABLES
  input,           \* the arguments of the function being applied
  output           \* its result, once applied

fnVars == <<input, output>>

vars == <<cgVars, bdVars, fldVars, idxVars, cacheVars, emitVars, linkVars, fnVars>>

\* What the actions of one specification leave alone.
moreVars == <<emitVars, linkVars, fnVars>>
notCg == <<bdVars, fldVars, idxVars, cacheVars, moreVars>>
notBd == <<cgVars, fldVars, idxVars, cacheVars, moreVars>>
notFld == <<cgVars, bdVars, idxVars, cacheVars, moreVars>>
notIdx == <<cgVars, bdVars, cacheVars, moreVars>>
notCache == <<cgVars, bdVars, idxVars, field_cache, access, accesses, moreVars>>
notEmit == <<cgVars, bdVars, fldVars, idxVars, cacheVars, linkVars, fnVars>>
notLink == <<cgVars, bdVars, fldVars, idxVars, cacheVars, emitVars, fnVars>>
notFn == <<cgVars, bdVars, fldVars, idxVars, cacheVars, emitVars, linkVars>>

\* ------------------------------------------------- module units (llvm.c)
\* find_module: the first unit of the list with that name (0: none).
find_module(us, module_name) ==
  LET hits == {k \in 1..Len(us) : us[k].module_name = module_name}
  IN  IF hits = {} THEN 0 ELSE Min(hits)

\* create_module_unit: a new unit at the head of ctx->modules.
create_module_unit(us, module_name) ==
  << [module_name |-> module_name,
      symbols |-> <<>>,
      globals |-> <<>>,
      is_main_module |-> (module_name = "main")] >> \o us

\* add_symbol_to_module: a new LLVM_Symbol at the head of the unit's list.
add_symbol_to_module(us, u, name, value, is_function) ==
  [us EXCEPT ![u].symbols =
     << [name |-> name, value |-> value, is_function |-> is_function] >> \o @]

\* find_symbol_in_module: the first symbol of the list with that name (0: none).
find_symbol_in_module(unit, name) ==
  LET hits == {k \in 1..Len(unit.symbols) : unit.symbols[k].name = name}
  IN  IF hits = {} THEN 0 ELSE Min(hits)

\* LLVMGetNamedFunction / LLVMGetNamedGlobal: the value of that name and kind
\* in an IR module (0: none).
GetNamed(globals, name, is_function) ==
  LET hits == {k \in 1..Len(globals) :
                 globals[k].name = name /\ globals[k].is_function = is_function}
  IN  IF hits = {} THEN 0 ELSE Min(hits)

\* LLVMAddFunction / LLVMAddGlobal: the IR module makes the name unique.
UniqueName(globals, name) ==
  IF \E k \in 1..Len(globals) : globals[k].name = name
  THEN name \o "." \o ToString(Len(globals))
  ELSE name

\* LLVMAddFunction / LLVMAddGlobal followed by LLVMSetLinkage and, for a
\* function, the calling convention a fresh value has unless one is set.
AddGlobal(us, u, g) ==
  [us EXCEPT ![u].globals = Append(@, [g EXCEPT !.name = UniqueName(us[u].globals, g.name)])]

\* get_function_linkage: main is always external, others follow is_public.
get_function_linkage(decl) ==
  IF decl.name = "main" THEN "external"
  ELSE IF decl.is_public THEN "external" ELSE "internal"

\* codegen_stmt on a top-level declaration of the current module: the value
\* is defined in the unit's IR module and entered into its symbol list. The
\* field def of a value remembers the type, calling convention, linkage and
\* module of the definition it stands for.
codegen_stmt(us, u, decl) ==
  LET g == [name |-> decl.name, is_function |-> decl.is_function,
            linkage |-> get_function_linkage(decl), is_declaration |-> FALSE,
            ty |-> decl.ret, cc |-> decl.cc, home |-> us[u].module_name,
            def |-> [ty |-> decl.ret, cc |-> decl.cc,
                     linkage |-> get_function_linkage(decl),
                     module |-> us[u].module_name]]
      us1 == AddGlobal(us, u, g)
  IN  add_symbol_to_module(us1, u, decl.name, us1[u].globals[Len(us1[u].globals)],
                           decl.is_function)

\* --------------------------------------------- imports (module_handles.c)
ImportedName(alias, name) == IF alias # NULL THEN alias \o "." \o name ELSE name

\* import_function_symbol: an external declaration under the source's name,
\* a symbol under the imported name.
import_function_symbol(us, cur, source_symbol, alias) ==
  LET imported_name == ImportedName(alias, source_symbol.name)
      func_type == source_symbol.value.ty
      external_func == [name |-> source_symbol.name, is_function |-> TRUE,
                        linkage |-> "external", is_declaration |-> TRUE,
                        ty |-> func_type,
                        cc |-> IF func_type = "struct"
                               THEN source_symbol.value.cc ELSE "ccc",
                        home |-> us[cur].module_name,
                        def |-> source_symbol.value.def]
      us1 == AddGlobal(us, cur, external_func)
  IN  IF GetNamed(us[cur].globals, imported_name, TRUE) # 0 THEN us
      ELSE add_symbol_to_module(us1, cur, imported_name,
                                us1[cur].globals[Len(us1[cur].globals)], TRUE)

\* import_variable_symbol: an external global under the source's name, a
\* symbol under the imported name.
import_variable_symbol(us, cur, source_symbol, alias) ==
  LET imported_name == ImportedName(alias, source_symbol.name)
      external_global == [name |-> source_symbol.name, is_function |-> FALSE,
                          linkage |-> "external", is_declaration |-> TRUE,
                          ty |-> source_symbol.value.ty, cc |-> "ccc",
                          home |-> us[cur].module_name,
                          def |-> source_symbol.value.def]
      us1 == AddGlobal(us, cur, external_global)
  IN  IF GetNamed(us[cur].globals, imported_name, FALSE) # 0 THEN us
      ELSE add_symbol_to_module(us1, cur, imported_name,
                                us1[cur].globals[Len(us1[cur].globals)], FALSE)

\* The body of import_module_symbols' loop, from symbol k of the source on:
\* only values the source's IR module holds with external linkage pass.
RECURSIVE ImportFrom(_, _, _, _, _)
ImportFrom(us, cur, src, k, alias) ==
  IF k > Len(us[src].symbols) THEN us
  ELSE LET sym == us[src].symbols[k]
           g == GetNamed(us[src].globals, sym.name, sym.is_function)
           ok == g # 0 /\ us[src].globals[g].linkage = "external"
           us1 == IF ~ok THEN us
                  ELSE IF sym.is_function
                       THEN import_function_symbol(us, cur, sym, alias)
                       ELSE import_variable_symbol(us, cur, sym, alias)
       IN  ImportFrom(us1, cur, src, k + 1, alias)

import_module_symbols(us, cur, src, alias) ==
  IF cur = 0 \/ src = 0 THEN us ELSE ImportFrom(us, cur, src, 1, alias)

\* codegen_stmt_use on state st = [us, dg] (units and diagnostics).
codegen_stmt_use(st, cur_name, use) ==
  LET referenced_module == find_module(st.us, use.module_name) IN
  IF referenced_module = 0
    THEN [st EXCEPT !.dg = Append(@, "Cannot import module - module not found")]
  ELSE IF cur_name # NULL /\ cur_name = use.module_name
    THEN [st EXCEPT !.dg = Append(@, "Module trying to import itself - skipping")]
  ELSE [st EXCEPT !.us = import_module_symbols(st.us, find_module(st.us, cur_name),
                                               referenced_module, use.alias)]

\* The inner loop of Pass 2: every @use of one module, from directive k on.
RECURSIVE ProcessUses(_, _, _, _)
ProcessUses(st, cur_name, uses, k) ==
  IF k > Len(uses) THEN st
  ELSE ProcessUses(codegen_stmt_use(st, cur_name, uses[k]), cur_name, uses, k + 1)

\* preprocess_all_modules: the keys it hands to cache_symbol.
preprocess_all_modules(us) ==
  UNION {{<<us[u].module_name, us[u].symbols[k].name>> :
             k \in 1..Len(us[u].symbols)} : u \in 1..Len(us)}

\* build_codegen_dependency_info.
build_codegen_dependency_info(mods) ==
  [k \in 1..Len(mods) |->
     [module_name |-> mods[k].name,
      processed |-> FALSE,
      dependencies |-> [d \in 1..Len(mods[k].uses) |-> mods[k].uses[d].module_name]]]

\* ---------------------------------------------------- the codegen pipeline
cgInit ==
  /\ \E n \in 1..MaxModules, u \in 0..MaxUses :
       \E names \in [1..n -> ModNames], owner \in [1..u -> 1..n],
          target \in [1..u -> ModNames] :
         /\ NonDecreasing(owner)
         /\ modules = ProgramOf(names, owner, target)
  /\ units = <<>>
  /\ current_module = NULL
  /\ pc = "start"
  /\ i = 1
  /\ dep_info = <<>>
  /\ stack = <<>>
  /\ emitted = <<>>
  /\ diag = <<>>
  /\ cache_log = <<>>
  /\ live = {}
  /\ ret = [cg |-> "none", objects |-> {}, gpm |-> "none", link |-> "none",
            glcm |-> "none"]

Top == stack[Len(stack)]
Pop == SubSeq(stack, 1, Len(stack) - 1)

\* generate_llvm_code_modules up to its call of generate_program_modules:
\* the context is created, then the output directory.
InitContext ==
  /\ pc = "start"
  /\ \E dir_ok \in BOOLEAN :
       IF dir_ok
       THEN /\ live' = {"ctx"}
            /\ pc' = "pass1"
            /\ UNCHANGED <<diag, ret>>
       ELSE /\ diag' = Append(diag, "Failed to create output directory")
            /\ live' = {}
            /\ ret' = [ret EXCEPT !.glcm = "false"]
            /\ pc' = "done"
  /\ UNCHANGED <<modules, units, current_module, i, dep_info, stack, emitted,
                 cache_log>>
  /\ UNCHANGED notCg

\* Pass 1, one module: a fresh name gets a unit, which becomes current.
Pass1Create ==
  /\ pc = "pass1" /\ i <= Len(modules)
  /\ find_module(units, modules[i].name) = 0
  /\ units' = create_module_unit(units, modules[i].name)
  /\ current_module' = modules[i].name
  /\ i' = i + 1
  /\ UNCHANGED <<modules, pc, dep_info, stack, emitted, diag, cache_log, live, ret>>
  /\ UNCHANGED notCg

\* Pass 1, one module: a name that has a unit already ends
\* codegen_stmt_program_multi_module (return NULL); generate_program_modules
\* goes on to compile_modules_to_objects.
Pass1Duplicate ==
  /\ pc = "pass1" /\ i <= Len(modules)
  /\ find_module(units, modules[i].name) # 0
  /\ diag' = Append(diag, "Duplicate module definition")
  /\ ret' = [ret EXCEPT !.cg = "duplicate"]
  /\ pc' = "compile"
  /\ UNCHANGED <<modules, units, current_module, i, dep_info, stack, emitted,
                 cache_log, live>>
  /\ UNCHANGED notCg

Pass1Done ==
  /\ pc = "pass1" /\ i > Len(modules)
  /\ pc' = "pass2"
  /\ i' = 1
  /\ UNCHANGED <<modules, units, current_module, dep_info, stack, emitted, diag,
                 cache_log, live, ret>>
  /\ UNCHANGED notCg

\* Pass 2, one module: its unit becomes current and each of its @use
\* directives goes through codegen_stmt_use.
Pass2Step ==
  /\ pc = "pass2" /\ i <= Len(modules)
  /\ IF find_module(units, modules[i].name) = 0
     THEN /\ diag' = Append(diag, "Module unit not found")
          /\ ret' = [ret EXCEPT !.cg = "no_unit"]
          /\ pc' = "compile"
          /\ UNCHANGED <<units, current_module, i>>
     ELSE LET st == ProcessUses([us |-> units, dg |-> diag], modules[i].name,
                                modules[i].uses, 1)
          IN  /\ units' = st.us
              /\ diag' = st.dg
              /\ current_module' = modules[i].name
              /\ i' = i + 1
              /\ UNCHANGED <<pc, ret>>
  /\ UNCHANGED <<modules, dep_info, stack, emitted, cache_log, live>>
  /\ UNCHANGED notCg

Pass2Done ==
  /\ pc = "pass2" /\ i > Len(modules)
  /\ pc' = "preprocess"
  /\ UNCHANGED <<modules, units, current_module, i, dep_info, stack, emitted,
                 diag, cache_log, live, ret>>
  /\ UNCHANGED notCg

\* Between Pass 2 and Pass 3: preprocess_all_modules fills the caches from
\* the symbol lists as they are now, then the dependency table is built.
Preprocess ==
  /\ pc = "preprocess"
  /\ cache_log' = Append(cache_log, [at |-> "before_pass3",
                                     keys |-> preprocess_all_modules(units)])
  /\ live' = IF preprocess_all_modules(units) # {} THEN live \cup {"caches"} ELSE live
  /\ dep_info' = build_codegen_dependency_info(modules)
  /\ pc' = "pass3"
  /\ i' = 1
  /\ UNCHANGED <<modules, units, current_module, stack, emitted, diag, ret>>
  /\ UNCHANGED notCg

\* The index of the first dep_info entry with that name (0: none).
DepIndex(info, module_name) ==
  LET hits == {k \in 1..Len(info) : info[k].module_name = module_name}
  IN  IF hits = {} THEN 0 ELSE Min(hits)

Frame(module_name) == [module_name |-> module_name, idx |-> 0, at |-> "enter",
                       k |-> 1, j |-> 1]

\* process_module_codegen_recursive returns true to its caller: the caller's
\* loop goes on (the Pass 3 loop when the stack empties).
ReturnTrue ==
  /\ stack' = Pop
  /\ i' = IF Len(stack) = 1 THEN i + 1 ELSE i

\* process_module_codegen_recursive returns false: every caller up the stack
\* returns false too and Pass 3 ends codegen_stmt_program_multi_module.
ReturnFalse(why) ==
  /\ stack' = <<>>
  /\ ret' = [ret EXCEPT !.cg = why]
  /\ pc' = "compile"

\* Pass 3, one module of the program: the walk is started on its name.
Pass3Call ==
  /\ pc = "pass3" /\ stack = <<>> /\ i <= Len(modules)
  /\ stack' = << Frame(modules[i].name) >>
  /\ UNCHANGED <<modules, units, current_module, pc, i, dep_info, emitted, diag,
                 cache_log, live, ret>>
  /\ UNCHANGED notCg

Pass3Done ==
  /\ pc = "pass3" /\ stack = <<>> /\ i > Len(modules)
  /\ ret' = [ret EXCEPT !.cg = "completed"]
  /\ pc' = "compile"
  /\ UNCHANGED <<modules, units, current_module, i, dep_info, stack, emitted,
                 diag, cache_log, live>>
  /\ UNCHANGED notCg

\* process_module_codegen_recursive, entry: no dep_info entry of that name.
RecNotFound ==
  /\ pc = "pass3" /\ stack # <<>> /\ Top.at = "enter"
  /\ DepIndex(dep_info, Top.module_name) = 0
  /\ diag' = Append(diag, "Module not found in dependency info")
  /\ ReturnFalse("dep_failed")
  /\ UNCHANGED <<modules, units, current_module, i, dep_info, emitted,
                 cache_log, live>>
  /\ UNCHANGED notCg

\* process_module_codegen_recursive, entry: the module is processed already.
RecProcessed ==
  /\ pc = "pass3" /\ stack # <<>> /\ Top.at = "enter"
  /\ DepIndex(dep_info, Top.module_name) # 0
  /\ dep_info[DepIndex(dep_info, Top.module_name)].processed
  /\ ReturnTrue
  /\ UNCHANGED <<modules, units, current_module, pc, dep_info, emitted, diag,
                 cache_log, live, ret>>
  /\ UNCHANGED notCg

\* A walk that forgets what it has processed.
VisitDeps_Always(dep) == TRUE

\* Whether the walk goes into the dependencies of an entry found at entry.
VisitDeps(dep) == ~dep.processed

\* process_module_codegen_recursive, entry: the module is walked.
RecEnter ==
  /\ pc = "pass3" /\ stack # <<>> /\ Top.at = "enter"
  /\ DepIndex(dep_info, Top.module_name) # 0
  /\ VisitDeps(dep_info[DepIndex(dep_info, Top.module_name)])
  /\ stack' = [stack EXCEPT ![Len(stack)].at = "deps",
                            ![Len(stack)].idx = DepIndex(dep_info, Top.module_name)]
  /\ UNCHANGED <<modules, units, current_module, pc, i, dep_info, emitted, diag,
                 cache_log, live, ret>>
  /\ UNCHANGED notCg

\* A walk that emits a body without walking the dependencies first.
DepsWalked_Skip(frame, dep) == TRUE

\* The dependency loop's exit test: every dependency has been walked.
DepsWalked(frame, dep) == frame.k > Len(dep.dependencies)

\* The dependency loop: the walk recurses into dependency k.
RecDep ==
  /\ pc = "pass3" /\ stack # <<>> /\ Top.at = "deps"
  /\ ~DepsWalked(Top, dep_info[Top.idx])
  /\ Len(stack) < MaxDepth
  /\ stack' = Append([stack EXCEPT ![Len(stack)].k = @ + 1],
                     Frame(dep_info[Top.idx].dependencies[Top.k]))
  /\ UNCHANGED <<modules, units, current_module, pc, i, dep_info, emitted, diag,
                 cache_log, live, ret>>
  /\ UNCHANGED notCg

\* The dependency loop: a recursion the C stack has no room for kills the
\* process (a module on a @use cycle is never marked processed before its
\* dependencies are walked).
RecOverflow ==
  /\ pc = "pass3" /\ stack # <<>> /\ Top.at = "deps"
  /\ ~DepsWalked(Top, dep_info[Top.idx])
  /\ Len(stack) >= MaxDepth
  /\ pc' = "crashed"
  /\ UNCHANGED <<modules, units, current_module, i, dep_info, stack, emitted,
                 diag, cache_log, live, ret>>
  /\ UNCHANGED notCg

\* After the dependency loop: the module's unit becomes current.
RecBegin ==
  /\ pc = "pass3" /\ stack # <<>> /\ Top.at = "deps"
  /\ DepsWalked(Top, dep_info[Top.idx])
  /\ IF find_module(units, Top.module_name) = 0
     THEN /\ diag' = Append(diag, "Module unit not found")
          /\ ReturnFalse("dep_failed")
          /\ UNCHANGED current_module
     ELSE /\ current_module' = Top.module_name
          /\ stack' = [stack EXCEPT ![Len(stack)].at = "body"]
          /\ UNCHANGED <<pc, diag, ret>>
  /\ UNCHANGED <<modules, units, i, dep_info, emitted, cache_log, live>>
  /\ UNCHANGED notCg

\* The body loop: codegen_stmt on statement j (the @use directives are not
\* part of body here, they were split off into uses).
RecBody ==
  /\ pc = "pass3" /\ stack # <<>> /\ Top.at = "body"
  /\ Top.j <= Len(modules[Top.idx].body)
  /\ units' = codegen_stmt(units, find_module(units, current_module),
                           modules[Top.idx].body[Top.j])
  /\ emitted' = Append(emitted, <<Top.idx, Top.j>>)
  /\ stack' = [stack EXCEPT ![Len(stack)].j = @ + 1]
  /\ UNCHANGED <<modules, current_module, pc, i, dep_info, diag, cache_log,
                 live, ret>>
  /\ UNCHANGED notCg

\* After the body loop: the module is marked processed, the call returns.
RecFinish ==
  /\ pc = "pass3" /\ stack # <<>> /\ Top.at = "body"
  /\ Top.j > Len(modules[Top.idx].body)
  /\ dep_info' = [dep_info EXCEPT ![Top.idx].processed = TRUE]
  /\ ReturnTrue
  /\ UNCHANGED <<modules, units, current_module, pc, emitted, diag, cache_log,
                 live, ret>>
  /\ UNCHANGED notCg

UnitNames(us) == {us[k].module_name : k \in 1..Len(us)}

\* compile_modules_to_objects: false without units, else true exactly when
\* every unit's object file was emitted (objs: the units whose emission
\* succeeded).
compile_modules_to_objects(us, objs) ==
  IF Len(us) = 0 THEN FALSE ELSE objs = UnitNames(us)

\* generate_program_modules after codegen_stmt_program_multi_module came
\* back: its result is that of compile_modules_to_objects, whatever the
\* code generator did. created: the units whose worker thread could be
\* started; the join on the handle of a thread that was not started may
\* take the process down (see JoinUninitialised).
CompileObjects ==
  /\ pc = "compile"
  /\ \E created \in SUBSET UnitNames(units), join \in {"returned", "crashed"} :
       \E objs \in SUBSET created :
         IF created # UnitNames(units) /\ join = "crashed"
         THEN /\ ret' = [ret EXCEPT !.objects = objs]
              /\ pc' = "crashed"
         ELSE /\ ret' = [ret EXCEPT !.objects = objs,
                                    !.gpm = IF compile_modules_to_objects(units, objs)
                                            THEN "true" ELSE "false"]
              /\ pc' = "generated"
  /\ UNCHANGED <<modules, units, current_module, i, dep_info, stack, emitted,
                 diag, cache_log, live>>
  /\ UNCHANGED notCg

\* generate_llvm_code_modules, generate_program_modules failed: the context
\* is cleaned up, the caches are not.
GenerateFailed ==
  /\ pc = "generated" /\ ret.gpm = "false"
  /\ diag' = Append(diag, "Failed to generate LLVM modules")
  /\ live' = live \ {"ctx"}
  /\ ret' = [ret EXCEPT !.glcm = "false"]
  /\ pc' = "done"
  /\ UNCHANGED <<modules, units, current_module, i, dep_info, stack, emitted,
                 cache_log>>
  /\ UNCHANGED notCg

\* generate_llvm_code_modules, generate_program_modules succeeded: the caches
\* are filled again from the symbol lists as they are now.
GenerateOk ==
  /\ pc = "generated" /\ ret.gpm = "true"
  /\ cache_log' = Append(cache_log, [at |-> "after_generate",
                                     keys |-> preprocess_all_modules(units)])
  /\ live' = IF preprocess_all_modules(units) # {} THEN live \cup {"caches"} ELSE live
  /\ pc' = "link"
  /\ UNCHANGED <<modules, units, current_module, i, dep_info, stack, emitted,
                 diag, ret>>
  /\ UNCHANGED notCg

\* link_object_files: cc, then gcc when cc failed.
link_object_files(cc_ok, gcc_ok) == cc_ok \/ gcc_ok

\* generate_llvm_code_modules, the link and the two ways out after it.
Link ==
  /\ pc = "link"
  /\ \E cc_ok \in BOOLEAN, gcc_ok \in BOOLEAN :
       IF link_object_files(cc_ok, gcc_ok)
       THEN /\ ret' = [ret EXCEPT !.link = "true", !.glcm = "true"]
            /\ live' = {}
       ELSE /\ ret' = [ret EXCEPT !.link = "false", !.glcm = "false"]
            /\ live' = live \ {"ctx"}
  /\ pc' = "done"
  /\ UNCHANGED <<modules, units, current_module, i, dep_info, stack, emitted,
                 diag, cache_log>>
  /\ UNCHANGED notCg

Next ==
  \/ InitContext
  \/ Pass1Create \/ Pass1Duplicate \/ Pass1Done
  \/ Pass2Step \/ Pass2Done
  \/ Preprocess
  \/ Pass3Call \/ Pass3Done
  \/ RecNotFound \/ RecProcessed \/ RecEnter
  \/ RecDep \/ RecOverflow \/ RecBegin \/ RecBody \/ RecFinish
  \/ CompileObjects \/ GenerateFailed \/ GenerateOk \/ Link

\* --------------------------------------------------------------- run_build
\* The names @use directives and the command line give to files other than
\* the main file; the file of that name declares the module of that name.
ImportNames == {"a", "b"}

SeqsUpTo(S, n) == UNION {[1..k -> S] : k \in 0..n}

\* The error reporter is empty and no stage has run. failed_at: the
\* position in stages of the stage that recorded the first error (0: none).
NoReport == [errors |-> FALSE, stages |-> <<>>, failed_at |-> 0]

\* A stage runs and may record errors into the reporter.
Stage(rep, name, records_error) ==
  [errors |-> rep.errors \/ records_error,
   stages |-> Append(rep.stages, name),
   failed_at |-> IF rep.failed_at = 0 /\ records_error
                 THEN Len(rep.stages) + 1 ELSE rep.failed_at]

\* error_report: whether the reporter holds errors.
error_report(rep) == rep.errors

\* parse_file_to_module without the poll after lexing.
parse_file_to_module_Unpolled(rep, readable, lex_error, parsed, parse_error) ==
  IF ~readable THEN [module |-> FALSE, report |-> rep]
  ELSE [module |-> parsed,
        report |-> Stage(Stage(rep, "lex", lex_error), "parse", parse_error)]

\* parse_file_to_module: the file is resolved and read, lexed, the reporter
\* is polled, and the tokens are parsed. module: whether a module came back.
parse_file_to_module(rep, readable, lex_error, parsed, parse_error) ==
  IF ~readable THEN [module |-> FALSE, report |-> rep]
  ELSE IF error_report(Stage(rep, "lex", lex_error))
    THEN [module |-> FALSE, report |-> Stage(rep, "lex", lex_error)]
  ELSE [module |-> parsed,
        report |-> Stage(Stage(rep, "lex", lex_error), "parse", parse_error)]

\* run_build's test after each parse_file_to_module: !module || error_report().
Rejected(r) == ~r.module \/ error_report(r.report)

bdIdle ==
  /\ config = [files |-> <<>>, is_document |-> FALSE]
  /\ sources = [main |-> <<>>, others |-> [f \in ImportNames |-> {}]]
  /\ loaded = <<>>
  /\ bpc = "idle"
  /\ bj = 1
  /\ bout = [success |-> FALSE, printed |-> <<>>]
  /\ report = NoReport

bdInit ==
  /\ config \in [files : SeqsUpTo(ImportNames, MaxFiles), is_document : BOOLEAN]
  /\ sources \in [main : SeqsUpTo(ImportNames, MaxImports),
                  others : [ImportNames -> SUBSET ImportNames]]
  /\ loaded = <<>>
  /\ bpc = "files"
  /\ bj = 1
  /\ bout = [success |-> FALSE, printed |-> <<>>]
  /\ report = NoReport

\* goto cleanup: run_build returns success as it stands.
Cleanup == bpc' = "returned"

\* The loop over config.files: parse_file_to_module on file bj.
ParseFile ==
  /\ bpc = "files" /\ bj <= Len(config.files)
  /\ \E readable \in BOOLEAN, lex_error \in BOOLEAN, parsed \in BOOLEAN,
        parse_error \in BOOLEAN :
       LET r == parse_file_to_module(report, readable, lex_error, parsed, parse_error)
       IN  /\ report' = r.report
           /\ IF ~Rejected(r)
              THEN /\ loaded' = Append(loaded, config.files[bj])
                   /\ bj' = bj + 1
                   /\ UNCHANGED bpc
              ELSE /\ Cleanup
                   /\ UNCHANGED <<loaded, bj>>
  /\ UNCHANGED <<config, sources, bout>>
  /\ UNCHANGED notBd

\* parse_file_to_module on config.filepath, the main file.
ParseMain ==
  /\ bpc = "files" /\ bj > Len(config.files)
  /\ \E readable \in BOOLEAN, lex_error \in BOOLEAN, parsed \in BOOLEAN,
        parse_error \in BOOLEAN :
       LET r == parse_file_to_module(report, readable, lex_error, parsed, parse_error)
       IN  /\ report' = r.report
           /\ IF ~Rejected(r)
              THEN /\ loaded' = Append(loaded, "main")
                   /\ bpc' = "imports"
                   /\ bj' = 1
              ELSE /\ Cleanup
                   /\ UNCHANGED <<loaded, bj>>
  /\ UNCHANGED <<config, sources, bout>>
  /\ UNCHANGED notBd

\* The already_added scan: a loaded module has the import's name.
already_added(mods, import_name) ==
  \E k \in 1..Len(mods) : mods[k] = import_name

\* The import loop over the main module's body: a @use of a loaded module.
ImportSkip ==
  /\ bpc = "imports" /\ bj <= Len(sources.main)
  /\ already_added(loaded, sources.main[bj])
  /\ bj' = bj + 1
  /\ UNCHANGED <<config, sources, loaded, bpc, bout, report>>
  /\ UNCHANGED notBd

\* The import loop over the main module's body: a @use of a module not yet
\* loaded is parsed from the file of that name and appended.
ImportParse ==
  /\ bpc = "imports" /\ bj <= Len(sources.main)
  /\ ~already_added(loaded, sources.main[bj])
  /\ \E readable \in BOOLEAN, lex_error \in BOOLEAN, parsed \in BOOLEAN,
        parse_error \in BOOLEAN :
       LET r == parse_file_to_module(report, readable, lex_error, parsed, parse_error)
       IN  /\ report' = r.report
           /\ IF ~Rejected(r)
              THEN /\ loaded' = Append(loaded, sources.main[bj])
                   /\ bj' = bj + 1
                   /\ UNCHANGED bpc
              ELSE /\ Cleanup
                   /\ UNCHANGED <<loaded, bj>>
  /\ UNCHANGED <<config, sources, bout>>
  /\ UNCHANGED notBd

\* create_program_node over the module list as the import loop left it.
Combine ==
  /\ bpc = "imports" /\ bj > Len(sources.main)
  /\ bpc' = "combined"
  /\ UNCHANGED <<config, sources, loaded, bj, bout, report>>
  /\ UNCHANGED notBd

\* Documentation mode: generate_documentation, then cleanup.
Document ==
  /\ bpc = "combined" /\ config.is_document
  /\ \E generated \in BOOLEAN :
       bout' = [success |-> generated,
                printed |-> IF generated
                            THEN Append(bout.printed, "Documentation generated successfully!")
                            ELSE Append(bout.printed, "Failed to generate documentation")]
  /\ report' = Stage(report, "document", FALSE)
  /\ Cleanup
  /\ UNCHANGED <<config, sources, loaded, bj>>
  /\ UNCHANGED notBd

\* typecheck: reported errors end the build; otherwise its result decides
\* whether the code generator runs.
Typecheck ==
  /\ bpc = "combined" /\ ~config.is_document
  /\ \E tc \in BOOLEAN, tc_error \in BOOLEAN :
       /\ report' = Stage(report, "typecheck", tc_error)
       /\ bpc' = IF error_report(Stage(report, "typecheck", tc_error)) THEN "returned"
                 ELSE IF tc THEN "codegen" ELSE "finalize"
  /\ UNCHANGED <<config, sources, loaded, bj, bout>>
  /\ UNCHANGED notBd

\* generate_llvm_code_modules: its result becomes success.
Codegen ==
  /\ bpc = "codegen"
  /\ \E generated \in BOOLEAN : bout' = [bout EXCEPT !.success = generated]
  /\ report' = Stage(report, "codegen", FALSE)
  /\ bpc' = "finalize"
  /\ UNCHANGED <<config, sources, loaded, bj>>
  /\ UNCHANGED notBd

\* The last stages: the timer stops and the closing line is printed.
Finalize ==
  /\ bpc = "finalize"
  /\ bout' = [bout EXCEPT !.printed = Append(@, "Build succeeded!")]
  /\ bpc' = "returned"
  /\ UNCHANGED <<config, sources, loaded, bj, report>>
  /\ UNCHANGED notBd

NextBuild ==
  \/ ParseFile \/ ParseMain \/ ImportSkip \/ ImportParse \/ Combine
  \/ Document \/ Typecheck \/ Codegen \/ Finalize

cgIdle ==
  /\ modules = <<>>
  /\ units = <<>>
  /\ current_module = NULL
  /\ pc = "idle"
  /\ i = 1
  /\ dep_info = <<>>
  /\ stack = <<>>
  /\ emitted = <<>>
  /\ diag = <<>>
  /\ cache_log = <<>>
  /\ live = {}
  /\ ret = [cg |-> "none", objects |-> {}, gpm |-> "none", link |-> "none",
            glcm |-> "none"]

\* --------------------------------------------------- external declarations
\* What module a of the lowering context defines: a function f whose
\* return type, calling convention and visibility vary, and a public global.
DeclBodies ==
  {<< [name |-> "f", is_function |-> TRUE, is_public |-> pub, ret |-> r, cc |-> c],
      [name |-> "v", is_function |-> FALSE, is_public |-> TRUE, ret |-> "i64",
       cc |-> "ccc"] >> :
     pub \in BOOLEAN, r \in {"i64", "void", "struct"}, c \in {"ccc", "fastcc"}}

\* The units Pass 1 makes of the names, in that order, and module a's body
\* as the body loop of Pass 3 leaves it.
ContextOf(names, body) ==
  LET RECURSIVE Created(_)
      Created(k) == IF k = 0 THEN <<>>
                    ELSE create_module_unit(Created(k - 1), names[k])
      RECURSIVE Emitted(_, _)
      Emitted(us, k) == IF k > Len(body) THEN us
                        ELSE Emitted(codegen_stmt(us, find_module(us, "a"), body[k]), k + 1)
  IN  Emitted(Created(Len(names)), 1)

Orders == {o \in [1..3 -> ModNames] : \A p, q \in 1..3 : p # q => o[p] # o[q]}

declInit ==
  /\ modules = <<>>
  /\ \E names \in Orders, body \in DeclBodies : units = ContextOf(names, body)
  /\ current_module \in {"main", "b"}
  /\ pc = "lowering"
  /\ i = 1
  /\ dep_info = <<>>
  /\ stack = <<>>
  /\ emitted = <<>>
  /\ diag = <<>>
  /\ cache_log = <<>>
  /\ live = {"ctx"}
  /\ ret = [cg |-> "none", objects |-> {}, gpm |-> "none", link |-> "none",
            glcm |-> "none"]

\* The declaration codegen_module_access makes of a function found in
\* another unit: type and calling convention are the source's, and the
\* symbol goes in under the raw and the qualified name.
DeclareAccessed(us, cur, source, member, qualified_name) ==
  LET existing == [name |-> member, is_function |-> TRUE, linkage |-> "external",
                   is_declaration |-> TRUE, ty |-> source.ty, cc |-> source.cc,
                   home |-> us[cur].module_name, def |-> source.def]
      us1 == AddGlobal(us, cur, existing)
      value == us1[cur].globals[Len(us1[cur].globals)]
  IN  IF GetNamed(us[cur].globals, member, TRUE) # 0 THEN us
      ELSE add_symbol_to_module(add_symbol_to_module(us1, cur, member, value, TRUE),
                                cur, qualified_name, value, TRUE)

\* The search loop of codegen_module_access over the units other than the
\* current one, from unit k on: the IR module first, then the symbol list.
RECURSIVE AccessFrom(_, _, _, _, _)
AccessFrom(st, cur, object_name, member, k) ==
  LET us == st.us
      qualified_name == object_name \o "." \o member
      source_func == GetNamed(us[k].globals, member, TRUE)
      source_sym == find_symbol_in_module(us[k], member)
      imported == import_variable_symbol(us, cur, us[k].symbols[source_sym], object_name)
  IN  IF k > Len(us)
        THEN [st EXCEPT !.dg = Append(@, "No compile-time symbol found")]
      ELSE IF k = cur THEN AccessFrom(st, cur, object_name, member, k + 1)
      ELSE IF source_func # 0
        THEN [st EXCEPT !.us = DeclareAccessed(us, cur, us[k].globals[source_func],
                                               member, qualified_name)]
      ELSE IF source_sym = 0 THEN AccessFrom(st, cur, object_name, member, k + 1)
      ELSE IF us[k].symbols[source_sym].is_function
        THEN [st EXCEPT !.us = DeclareAccessed(us, cur, us[k].symbols[source_sym].value,
                                               member, qualified_name)]
      ELSE IF find_symbol_in_module(imported[cur], qualified_name) # 0
        THEN [st EXCEPT !.us = imported]
      ELSE AccessFrom([st EXCEPT !.us = imported], cur, object_name, member, k + 1)

\* codegen_module_access on object_name::member: the qualified symbol of the
\* current module if there is one, else the search of the other units.
codegen_module_access(st, cur, object_name, member) ==
  IF find_symbol_in_module(st.us[cur], object_name \o "." \o member) # 0 THEN st
  ELSE AccessFrom(st, cur, object_name, member, 1)

\* codegen_expr_call on obj.member(...): the function of that name in the
\* current IR module, else the first one found in another unit, declared
\* locally with its type and external linkage. The calling convention is
\* that of a fresh function: nothing is copied from the one found, and the
\* struct-return branch further down sees a callee of the current module.
RECURSIVE MethodFrom(_, _, _, _)
MethodFrom(st, cur, member_name, k) ==
  LET us == st.us
      found_func == GetNamed(us[k].globals, member_name, TRUE)
      method_func == [name |-> member_name, is_function |-> TRUE,
                      linkage |-> "external", is_declaration |-> TRUE,
                      ty |-> us[k].globals[found_func].ty,
                      cc |-> "ccc",
                      home |-> us[cur].module_name,
                      def |-> us[k].globals[found_func].def]
  IN  IF k > Len(us)
        THEN [st EXCEPT !.dg = Append(@, "Method not found in any module")]
      ELSE IF k = cur \/ found_func = 0 THEN MethodFrom(st, cur, member_name, k + 1)
      ELSE [st EXCEPT !.us = AddGlobal(us, cur, method_func)]

codegen_expr_call(st, cur, member_name) ==
  IF GetNamed(st.us[cur].globals, member_name, TRUE) # 0 THEN st
  ELSE MethodFrom(st, cur, member_name, 1)

Cur == find_module(units, current_module)

\* A @use of module a reaches codegen_stmt_use in the current module.
LowerUse ==
  /\ pc = "lowering" /\ i <= MaxLowerings
  /\ \E alias \in {NULL, "x"} :
       LET st == codegen_stmt_use([us |-> units, dg |-> diag], current_module,
                                  create_use_node("a", alias))
       IN  units' = st.us /\ diag' = st.dg
  /\ i' = i + 1
  /\ UNCHANGED <<modules, current_module, pc, dep_info, stack, emitted, cache_log,
                 live, ret>>
  /\ UNCHANGED notCg

\* x::member is lowered in the current module.
LowerAccess ==
  /\ pc = "lowering" /\ i <= MaxLowerings
  /\ \E member \in {"f", "v"} :
       LET st == codegen_module_access([us |-> units, dg |-> diag], Cur, "x", member)
       IN  units' = st.us /\ diag' = st.dg
  /\ i' = i + 1
  /\ UNCHANGED <<modules, current_module, pc, dep_info, stack, emitted, cache_log,
                 live, ret>>
  /\ UNCHANGED notCg

\* obj.f(...) is lowered in the current module.
LowerMethodCall ==
  /\ pc = "lowering" /\ i <= MaxLowerings
  /\ LET st == codegen_expr_call([us |-> units, dg |-> diag], Cur, "f")
     IN  units' = st.us /\ diag' = st.dg
  /\ i' = i + 1
  /\ UNCHANGED <<modules, current_module, pc, dep_info, stack, emitted, cache_log,
                 live, ret>>
  /\ UNCHANGED notCg

\* Pass 3 goes on to the body of another module: set_current_module.
LowerNextModule ==
  /\ pc = "lowering" /\ i <= MaxLowerings
  /\ \E next \in {"main", "b"} \ {current_module} : current_module' = next
  /\ i' = i + 1
  /\ UNCHANGED <<modules, units, pc, dep_info, stack, emitted, diag, cache_log,
                 live, ret>>
  /\ UNCHANGED notCg

NextDecl == LowerUse \/ LowerAccess \/ LowerMethodCall \/ LowerNextModule

\* ------------------------------------------------------ struct field access
\* The struct types of the lowering context. P and Q both have a field s; a
\* field of P has type Q. An LLVM type is named by a string: a struct type
\* by the struct's name, "Anon" is a struct type no StructInfo has.
StructP(s_public, q_public) ==
  [name |-> "P",
   field_names |-> <<"s", "q">>,
   field_types |-> <<"i64", "Q">>,
   field_is_public |-> <<s_public, q_public>>]

StructQ(s_public) ==
  [name |-> "Q",
   field_names |-> <<"s", "y">>,
   field_types |-> <<"i64", "ptr">>,
   field_is_public |-> <<s_public, FALSE>>]

FieldNames == {"s", "q", "y"}
ValueTypes == {"P", "Q", "Anon", "ptr", "i64"}
StructKinds == {"P", "Q", "R", "Anon"}

\* get_field_index: the position of the field in the struct (0: not a field
\* of it, the -1 of the C code).
get_field_index(info, field_name) ==
  LET hits == {k \in 1..Len(info.field_names) : info.field_names[k] = field_name}
  IN  IF hits = {} THEN 0 ELSE Min(hits)

\* is_field_access_allowed: the publicness gate.
is_field_access_allowed(info, field_index) == info.field_is_public[field_index]

\* The loop over ctx->struct_types for the StructInfo whose llvm_type is the
\* given type (0: none).
StructOfType(types, ty) ==
  LET hits == {k \in 1..Len(types) : types[k].name = ty}
  IN  IF hits = {} THEN 0 ELSE Min(hits)

\* cache_struct_field: the first struct cached for a field name stays.
cache_struct_field(f2s, field_name, info) ==
  IF field_name \in DOMAIN f2s THEN f2s ELSE f2s @@ (field_name :> info)

\* The struct loop of preprocess_all_modules: every field of every struct, in
\* list order, from struct k, field f on.
RECURSIVE PreprocessFields(_, _, _, _)
PreprocessFields(f2s, types, k, f) ==
  IF k > Len(types) THEN f2s
  ELSE IF f > Len(types[k].field_names) THEN PreprocessFields(f2s, types, k + 1, 1)
  ELSE PreprocessFields(cache_struct_field(f2s, types[k].field_names[f], k),
                        types, k, f + 1)

\* find_struct_by_field_cached: the cached struct of the field name, else the
\* first struct of the list that has the field, which is then cached.
\* Gives [info, f2s]: the struct found (0: none) and the cache afterwards.
find_struct_by_field_cached(f2s, types, field_name) ==
  LET hits == {k \in 1..Len(types) : get_field_index(types[k], field_name) > 0}
  IN  IF field_name \in DOMAIN f2s
        THEN [info |-> f2s[field_name], f2s |-> f2s]
      ELSE IF hits = {} THEN [info |-> 0, f2s |-> f2s]
      ELSE [info |-> Min(hits), f2s |-> cache_struct_field(f2s, field_name, Min(hits))]

\* lookup_field_cache: the entries for (struct_name, field_name), at most one.
lookup_field_cache(cache, struct_name, field_name) ==
  {e \in cache : e.struct_name = struct_name /\ e.field_name = field_name}

\* cache_field_access: an entry is added unless the pair has one.
cache_field_access(cache, info, field_name, index) ==
  IF lookup_field_cache(cache, info.name, field_name) # {} THEN cache
  ELSE cache \cup {[struct_name |-> info.name, field_name |-> field_name,
                    field_index |-> index,
                    is_public |-> info.field_is_public[index]]}

\* What a handler gives back: the value ("null", "lowered", or "crashed" when
\* the build dies), the struct and field index the GEP was built on, the
\* type of the value loaded, and the two caches afterwards.
Outcome(value, info, index, ty, cache, f2s) ==
  [value |-> value, info |-> info, index |-> index, ty |-> ty,
   cache |-> cache, f2s |-> f2s]

Failed(cache, f2s) == Outcome("null", 0, 0, "none", cache, f2s)

\* The type of the field at an index (index 0: whatever lies before the
\* array).
FieldType(info, index) ==
  IF index = 0 THEN "garbage" ELSE info.field_types[index]

\* The field lookup the identifier and chained handlers share once the
\* struct is known: a cached entry is believed, a fresh lookup is gated by
\* is_field_access_allowed and then cached.
CheckedField(types, cache, f2s, info, cached, field_name) ==
  LET e == CHOOSE x \in cached : TRUE
      field_index == get_field_index(types[info], field_name)
  IN  IF cached # {}
        THEN IF ~e.is_public THEN Failed(cache, f2s)
             ELSE Outcome("lowered", info, e.field_index,
                          FieldType(types[info], e.field_index), cache, f2s)
      ELSE IF field_index = 0 THEN Failed(cache, f2s)
      ELSE IF ~is_field_access_allowed(types[info], field_index) THEN Failed(cache, f2s)
      ELSE Outcome("lowered", info, field_index, types[info].field_types[field_index],
                   cache_field_access(cache, types[info], field_name, field_index), f2s)

\* handle_identifier_member: obj.field where obj is a variable. sym is the
\* symbol found: [kind, element_type], kind "none" when find_symbol fails.
handle_identifier_member(types, cache, f2s, sym, field_name) ==
  LET by_type == IF sym.kind = "ptr" /\ sym.element_type # NULL
                   THEN StructOfType(types, sym.element_type)
                 ELSE IF sym.kind \in StructKinds THEN StructOfType(types, sym.kind)
                 ELSE 0
      cached == IF by_type # 0
                  THEN lookup_field_cache(cache, types[by_type].name, field_name)
                ELSE {}
      by_field == find_struct_by_field_cached(f2s, types, field_name)
      struct_info == IF by_type # 0 THEN by_type ELSE by_field.info
      f2s1 == IF by_type # 0 THEN f2s ELSE by_field.f2s
  IN  IF sym.kind \in {"none", "function"} THEN Failed(cache, f2s)
      ELSE IF struct_info = 0 THEN Failed(cache, f2s1)
      ELSE CheckedField(types, cache, f2s1, struct_info, cached, field_name)

\* handle_chained_member once the base obj.field1 has been lowered to a value
\* of type base_type: the struct by type, else by field name.
handle_chained_member(types, cache, f2s, base_type, field_name) ==
  LET by_type == StructOfType(types, base_type)
      by_field == find_struct_by_field_cached(f2s, types, field_name)
      struct_info == IF base_type \in StructKinds /\ by_type # 0 THEN by_type
                     ELSE by_field.info
      f2s1 == IF base_type \in StructKinds /\ by_type # 0 THEN f2s ELSE by_field.f2s
  IN  IF base_type \notin StructKinds \cup {"ptr"} THEN Failed(cache, f2s)
      ELSE IF struct_info = 0 THEN Failed(cache, f2s1)
      ELSE CheckedField(types, cache, f2s1, struct_info,
                        lookup_field_cache(cache, types[struct_info].name, field_name),
                        field_name)

\* The field lookup the indexed, call-result and deref handlers share once
\* the struct is known: no publicness test, and the result of
\* get_field_index is used as it comes. With -1 the reads of field_types and
\* field_is_public are out of bounds: ub is what the build makes of that,
\* "crashed", or a garbage entry read as "public" or "private".
UncheckedField(types, cache, f2s, info, field_name, ub) ==
  LET cached == lookup_field_cache(cache, types[info].name, field_name)
      e == CHOOSE x \in cached : TRUE
      field_index == get_field_index(types[info], field_name)
  IN  IF cached # {}
        THEN Outcome("lowered", info, e.field_index,
                     FieldType(types[info], e.field_index), cache, f2s)
      ELSE IF field_index = 0
        THEN IF ub = "crashed" THEN Outcome("crashed", info, 0, "none", cache, f2s)
             ELSE Outcome("lowered", info, 0, "garbage",
                          cache \cup {[struct_name |-> types[info].name,
                                       field_name |-> field_name, field_index |-> 0,
                                       is_public |-> (ub = "public")]}, f2s)
      ELSE Outcome("lowered", info, field_index, types[info].field_types[field_index],
                   cache_field_access(cache, types[info], field_name, field_index), f2s)

\* handle_indexed_member: arr[i].field, the indexed value being of type
\* indexed_type ("null" when codegen_expr_index failed).
handle_indexed_member(types, cache, f2s, indexed_type, field_name, ub) ==
  LET by_type == StructOfType(types, indexed_type)
      by_field == find_struct_by_field_cached(f2s, types, field_name)
      struct_info == IF by_type # 0 THEN by_type ELSE by_field.info
      f2s1 == IF by_type # 0 THEN f2s ELSE by_field.f2s
  IN  IF indexed_type \notin StructKinds THEN Failed(cache, f2s)
      ELSE IF struct_info = 0 THEN Failed(cache, f2s1)
      ELSE UncheckedField(types, cache, f2s1, struct_info, field_name, ub)

\* handle_call_result_member: f().field, the call's value being of type
\* result_type ("null" when the call failed).
handle_call_result_member(types, cache, f2s, result_type, field_name, ub) ==
  LET by_type == StructOfType(types, result_type)
      by_field == find_struct_by_field_cached(f2s, types, field_name)
      struct_info == IF result_type \in StructKinds /\ by_type # 0 THEN by_type
                     ELSE by_field.info
      f2s1 == IF result_type \in StructKinds /\ by_type # 0 THEN f2s ELSE by_field.f2s
  IN  IF result_type \notin StructKinds \cup {"ptr"} THEN Failed(cache, f2s)
      ELSE IF struct_info = 0 THEN Failed(cache, f2s1)
      ELSE UncheckedField(types, cache, f2s1, struct_info, field_name, ub)

\* handle_deref_member: (*p).field, ptr_ok telling whether p was lowered.
handle_deref_member(types, cache, f2s, ptr_ok, field_name, ub) ==
  LET by_field == find_struct_by_field_cached(f2s, types, field_name)
  IN  IF ~ptr_ok THEN Failed(cache, f2s)
      ELSE IF by_field.info = 0 THEN Failed(cache, by_field.f2s)
      ELSE UncheckedField(types, cache, by_field.f2s, by_field.info, field_name, ub)

\* The symbols obj can name.
Symbols ==
  {[kind |-> k, element_type |-> NULL] : k \in {"none", "function", "P", "Q", "Anon", "ptr"}}
  \cup {[kind |-> "ptr", element_type |-> t] : t \in {"P", "Q"}}

UBOutcomes == {"crashed", "public", "private"}

fldInit ==
  /\ \E s1 \in BOOLEAN, s2 \in BOOLEAN, q \in BOOLEAN :
       struct_types \in {<<StructP(s1, q), StructQ(s2)>>, <<StructQ(s2), StructP(s1, q)>>}
  /\ field_to_struct \in {<<>>, PreprocessFields(<<>>, struct_types, 1, 1)}
  /\ field_cache = {}
  /\ access = [shape |-> "none", field |-> NULL, value |-> "null", info |-> 0,
               index |-> 0]
  /\ accesses = 0

fldIdle ==
  /\ struct_types = <<>>
  /\ field_to_struct = <<>>
  /\ field_cache = {}
  /\ access = [shape |-> "none", field |-> NULL, value |-> "null", info |-> 0,
               index |-> 0]
  /\ accesses = 0

\* codegen_expr_struct_access has routed obj.field to a handler, which gave r.
Routed(shape, field_name, r) ==
  /\ access' = [shape |-> shape, field |-> field_name, value |-> r.value,
                info |-> r.info, index |-> r.index]
  /\ field_cache' = r.cache
  /\ field_to_struct' = r.f2s
  /\ accesses' = accesses + 1
  /\ UNCHANGED struct_types

CanAccess == accesses < MaxAccesses /\ access.value # "crashed"

AccessIdentifier ==
  /\ CanAccess
  /\ \E sym \in Symbols, field_name \in FieldNames :
       Routed("identifier", field_name,
              handle_identifier_member(struct_types, field_cache, field_to_struct,
                                       sym, field_name))
  /\ UNCHANGED notFld

\* obj.field1.field2: the base is lowered by the router first, here by the
\* identifier handler, and the chained handler works on the value it gave.
AccessChained ==
  /\ CanAccess
  /\ \E sym \in Symbols, field1 \in FieldNames, field_name \in FieldNames :
       LET base == handle_identifier_member(struct_types, field_cache,
                                            field_to_struct, sym, field1)
       IN  Routed("chained", field_name,
                  IF base.value = "null" THEN Failed(base.cache, base.f2s)
                  ELSE handle_chained_member(struct_types, base.cache, base.f2s,
                                             base.ty, field_name))
  /\ UNCHANGED notFld

AccessIndexed ==
  /\ CanAccess
  /\ \E indexed_type \in ValueTypes \cup {"null"}, field_name \in FieldNames,
        ub \in UBOutcomes :
       Routed("indexed", field_name,
              handle_indexed_member(struct_types, field_cache, field_to_struct,
                                    indexed_type, field_name, ub))
  /\ UNCHANGED notFld

AccessCallResult ==
  /\ CanAccess
  /\ \E result_type \in ValueTypes \cup {"null"}, field_name \in FieldNames,
        ub \in UBOutcomes :
       Routed("call", field_name,
              handle_call_result_member(struct_types, field_cache, field_to_struct,
                                        result_type, field_name, ub))
  /\ UNCHANGED notFld

AccessDeref ==
  /\ CanAccess
  /\ \E ptr_ok \in BOOLEAN, field_name \in FieldNames, ub \in UBOutcomes :
       Routed("deref", field_name,
              handle_deref_member(struct_types, field_cache, field_to_struct,
                                  ptr_ok, field_name, ub))
  /\ UNCHANGED notFld

\* The router's default branch: an object of any other kind.
AccessUnsupported ==
  /\ CanAccess
  /\ \E field_name \in FieldNames :
       Routed("other", field_name, Failed(field_cache, field_to_struct))
  /\ UNCHANGED notFld

NextField ==
  \/ AccessIdentifier \/ AccessChained \/ AccessIndexed \/ AccessCallResult
  \/ AccessDeref \/ AccessUnsupported

\* ---------------------------------------------- pointer element types
\* A variable name is the sequence of its characters, so that strstr is the
\* substring test of the C library.
strstr(haystack, needle) ==
  \E k \in 0..(Len(haystack) - Len(needle)) :
    SubSeq(haystack, k + 1, k + Len(needle)) = needle

\* The string literals the lowering looks for in variable names.
Spell(word) ==
  CASE word = "int" -> <<"i", "n", "t">>
    [] word = "char" -> <<"c", "h", "a", "r">>
    [] word = "double" -> <<"d", "o", "u", "b", "l", "e">>
    [] word = "float" -> <<"f", "l", "o", "a", "t">>
    [] word = "_buf" -> <<"_", "b", "u", "f">>
    [] word = "byte" -> <<"b", "y", "t", "e">>
    [] word = "ptr" -> <<"p", "t", "r">>
    [] word = "aligned_ptr" -> <<"a", "l", "i", "g", "n", "e", "d", "_", "p", "t", "r">>
    [] word = "aligned" -> <<"a", "l", "i", "g", "n", "e", "d">>
    [] word = "str" -> <<"s", "t", "r">>

Has(var_name, word) == strstr(var_name, Spell(word))

\* p, points, chars, data_buf, grid, ptr, str_ptr, floats
VarNames ==
  {<<"p">>, <<"p", "o", "i", "n", "t", "s">>, <<"c", "h", "a", "r", "s">>,
   <<"d", "a", "t", "a", "_", "b", "u", "f">>, <<"g", "r", "i", "d">>,
   <<"p", "t", "r">>, <<"s", "t", "r", "_", "p", "t", "r">>,
   <<"f", "l", "o", "a", "t", "s">>}

\* A name no variable of the scope has.
Undeclared == <<"u">>

\* The kind of an LLVM type. "[i64]" is an array of i64.
Kind(ty) ==
  CASE ty \in {"i8", "i64"} -> "integer"
    [] ty = "float" -> "float"
    [] ty = "double" -> "double"
    [] ty = "ptr" -> "pointer"
    [] ty = "[i64]" -> "array"
    [] ty \in StructKinds -> "struct"
    [] OTHER -> "other"

ArrayElem(ty) == IF ty = "[i64]" THEN "i64" ELSE NULL

Width(ty) == CASE ty = "i8" -> 8 [] ty = "i64" -> 64 [] OTHER -> 0

\* A struct with a pointer field, a pointer to itself and an array field.
StructR(data_element) ==
  [name |-> "R",
   field_names |-> <<"data", "next", "items">>,
   field_types |-> <<"ptr", "ptr", "[i64]">>,
   field_element_types |-> <<data_element, "R", NULL>>,
   field_is_public |-> <<TRUE, TRUE, TRUE>>]

\* The symbols a variable of the scope can be: its kind is its type, or
\* "function"; element_type is what its declaration recorded.
IxSymbols ==
  {[kind |-> k, element_type |-> NULL] : k \in {"function", "i64", "[i64]", "R"}}
  \cup {[kind |-> "ptr", element_type |-> e] :
          e \in {NULL, "i8", "i64", "double", "ptr", "R"}}

\* find_symbol in a scope of local variables.
find_symbol(syms, name) ==
  IF name \in DOMAIN syms THEN syms[name]
  ELSE [kind |-> "none", element_type |-> NULL]

\* The expressions that are indexed or dereferenced: a variable, a cast to
\* a type, a member path off a variable, and a call giving a value of a type.
Node(type, name, to, pointee, chain) ==
  [type |-> type, name |-> name, to |-> to, pointee |-> pointee, chain |-> chain]

Chains == {<<"data">>, <<"items">>, <<"next">>, <<"next", "data">>}

NodesOver(names) ==
  {Node("identifier", n, NULL, NULL, <<>>) : n \in names}
  \cup {Node("cast", <<>>, "ptr", t, <<>>) : t \in {"i8", "i64", "R"}}
  \cup {Node("cast", <<>>, "i64", NULL, <<>>), Node("call", <<>>, "ptr", NULL, <<>>)}
  \cup {Node("member", n, NULL, NULL, c) : n \in names, c \in Chains}

\* The value of lowering an expression: its type ("null" when it failed),
\* the diagnostic printed, and the field caches afterwards.
Value(ty, msg, cache, f2s) == [ty |-> ty, diag |-> msg, cache |-> cache, f2s |-> f2s]

\* The value a handler's outcome r is: an array field reached by the
\* identifier handler comes back as a pointer to its first element.
MemberResult(r, by_identifier) ==
  IF r.value = "null" THEN Value("null", NULL, r.cache, r.f2s)
  ELSE IF by_identifier /\ Kind(r.ty) = "array" THEN Value("ptr", NULL, r.cache, r.f2s)
  ELSE Value(r.ty, NULL, r.cache, r.f2s)

\* The chained handler on what lowering the base member gave.
ChainedOn(types, base, field_name) ==
  IF base.value = "null" THEN Failed(base.cache, base.f2s)
  ELSE handle_chained_member(types, base.cache, base.f2s, base.ty, field_name)

\* codegen_expr_struct_access on a member path of one or two fields: the
\* identifier handler, then the chained handler on what it gave.
MemberValue(syms, types, cache, f2s, node) ==
  IF Len(node.chain) = 1
    THEN MemberResult(handle_identifier_member(types, cache, f2s,
                                               find_symbol(syms, node.name),
                                               node.chain[1]), TRUE)
  ELSE MemberResult(ChainedOn(types,
                              handle_identifier_member(types, cache, f2s,
                                                       find_symbol(syms, node.name),
                                                       node.chain[1]),
                              node.chain[2]), FALSE)

\* codegen_expr on an expression that is not itself an index.
codegen_expr(syms, types, cache, f2s, node) ==
  LET sym == find_symbol(syms, node.name)
  IN  CASE node.type = "identifier" ->
             IF sym.kind = "none"
               THEN Value("null", "Error: Undefined symbol", cache, f2s)
             ELSE IF sym.kind = "function" THEN Value("ptr", NULL, cache, f2s)
             ELSE Value(sym.kind, NULL, cache, f2s)
        [] node.type = "member" -> MemberValue(syms, types, cache, f2s, node)
        [] OTHER -> Value(node.to, NULL, cache, f2s)

\* What lowering an index, a deref or an index assignment gives: the value
\* ("null", or the "load" or "store" emitted), the type of the object that
\* was indexed or dereferenced, the element type of the GEP and the load or
\* store, the diagnostic printed, and the field caches afterwards.
Lowering(value, object, element_type, msg, cache, f2s) ==
  [value |-> value, object |-> object, element_type |-> element_type,
   diag |-> msg, cache |-> cache, f2s |-> f2s]

\* The name fallback of a one-level pointer index.
IndexNameType(var_name) ==
  IF Has(var_name, "int") /\ ~Has(var_name, "char") THEN "i64"
  ELSE IF Has(var_name, "double") THEN "double"
  ELSE IF Has(var_name, "float") THEN "float"
  ELSE IF Has(var_name, "char") \/ Has(var_name, "_buf") THEN "i8"
  ELSE NULL

\* The element type of p[i][j] when p[i] gave a pointer and p is a variable.
NestedIndexType(base_sym, base_var_name) ==
  IF base_sym.kind # "none" /\ base_sym.element_type # NULL
    THEN IF Kind(base_sym.element_type) = "pointer"
           THEN IF Has(base_var_name, "byte") \/ Has(base_var_name, "char") THEN "i8"
                ELSE IF Has(base_var_name, "int") /\ ~Has(base_var_name, "byte") THEN "i64"
                ELSE IF Has(base_var_name, "double") THEN "double"
                ELSE IF Has(base_var_name, "float") THEN "float"
                ELSE "i8"
         ELSE base_sym.element_type
  ELSE IF Has(base_var_name, "byte") \/ Has(base_var_name, "char") THEN "i8"
  ELSE IF Has(base_var_name, "double") THEN "double"
  ELSE IF Has(base_var_name, "float") THEN "float"
  ELSE IF Has(base_var_name, "int") THEN "i64"
  ELSE "i8"

\* The walk of obj.f1...fn[i] along the field chain from struct cur, at
\* field k: the element type the last field's metadata gives, or NULL.
RECURSIVE TraceChain(_, _, _, _)
TraceChain(types, cur, chain, k) ==
  IF k > Len(chain) \/ cur = 0 THEN NULL
  ELSE LET field_idx == get_field_index(types[cur], chain[k])
           field_type == types[cur].field_types[field_idx]
           pointee == types[cur].field_element_types[field_idx]
       IN  IF field_idx = 0 THEN NULL
           ELSE IF k = Len(chain)
             THEN IF Kind(field_type) = "array" THEN ArrayElem(field_type) ELSE pointee
           ELSE IF Kind(field_type) = "struct"
             THEN TraceChain(types, StructOfType(types, field_type), chain, k + 1)
           ELSE IF Kind(field_type) = "pointer" /\ pointee # NULL /\ Kind(pointee) = "struct"
             THEN TraceChain(types, StructOfType(types, pointee), chain, k + 1)
           ELSE NULL

\* The element type of obj.field[i] from the struct of the base variable.
FieldElementType(syms, types, node) ==
  LET base_sym == find_symbol(syms, node.name)
      current_struct ==
        IF base_sym.kind = "ptr" /\ base_sym.element_type # NULL
          THEN StructOfType(types, base_sym.element_type)
        ELSE IF Kind(base_sym.kind) = "struct" THEN StructOfType(types, base_sym.kind)
        ELSE 0
  IN  IF base_sym.kind = "none" THEN NULL
      ELSE TraceChain(types, current_struct, node.chain, 1)

\* obj.field[i], the branch of codegen_expr_index for a member object,
\* pointer being what codegen_expr_struct_access gave for obj.field.
IndexMember(syms, types, node, pointer) ==
  LET element_type == FieldElementType(syms, types, node)
  IN  IF pointer.ty = "null"
        THEN Lowering("null", "null", NULL,
                      "Error: Failed to resolve member access for indexing",
                      pointer.cache, pointer.f2s)
      ELSE IF Kind(pointer.ty) # "pointer"
        THEN Lowering("null", pointer.ty, NULL,
                      "Error: Member is not a pointer type for indexing",
                      pointer.cache, pointer.f2s)
      ELSE IF element_type = NULL
        THEN Lowering("null", pointer.ty, NULL,
                      "Error: Could not determine pointer element type for indexing",
                      pointer.cache, pointer.f2s)
      ELSE Lowering("load", pointer.ty, element_type, NULL,
                    pointer.cache, pointer.f2s)

\* The branches of codegen_expr_index on the kind of the object, object
\* being what lowering the indexed expression gave.
IndexObject(syms, node, levels, object) ==
  LET sym == find_symbol(syms, node.name)
      by_symbol == levels = 1 /\ node.type = "identifier" /\ sym.kind # "function"
      pointee_type ==
        IF by_symbol
          THEN IF sym.element_type # NULL THEN sym.element_type
               ELSE IF Kind(sym.kind) = "array" THEN ArrayElem(sym.kind)
               ELSE IndexNameType(node.name)
        ELSE IF levels > 1 /\ node.type = "identifier"
          THEN NestedIndexType(sym, node.name)
        ELSE IF levels = 1 /\ node.type = "cast" /\ node.to = "ptr" THEN node.pointee
        ELSE NULL
  IN  IF object.ty = "null"
        THEN Lowering("null", "null", NULL, "Error: Failed to generate indexed object",
                      object.cache, object.f2s)
      ELSE IF Kind(object.ty) = "array"
        THEN Lowering("load", object.ty, ArrayElem(object.ty), NULL,
                      object.cache, object.f2s)
      ELSE IF Kind(object.ty) = "pointer"
        THEN IF pointee_type = NULL
               THEN Lowering("null", object.ty, NULL,
                             "Error: Could not determine pointer element type for indexing",
                             object.cache, object.f2s)
             ELSE Lowering("load", object.ty, pointee_type, NULL,
                           object.cache, object.f2s)
      ELSE Lowering("null", object.ty, NULL, "Error: Cannot index expression of type kind",
                    object.cache, object.f2s)

\* The value an index expression leaves when it is itself indexed.
Loaded(r) ==
  Value(IF r.value = "load" THEN r.element_type ELSE "null", r.diag, r.cache, r.f2s)

\* The index levels above level k of node[i1]...[ilevels], inner being what
\* level k gave: each level indexes the value the level below left.
RECURSIVE IndexLevels(_, _, _, _, _)
IndexLevels(syms, node, levels, k, inner) ==
  IF k >= levels THEN inner
  ELSE IndexLevels(syms, node, levels, k + 1,
                   IndexObject(syms, node, k + 1, Loaded(inner)))

\* codegen_expr_index on node[i1]...[ilevels].
codegen_expr_index(syms, types, cache, f2s, node, levels) ==
  IndexLevels(syms, node, levels, 1,
              IF node.type = "member"
                THEN IndexMember(syms, types, node,
                                 MemberValue(syms, types, cache, f2s, node))
              ELSE IndexObject(syms, node, 1, codegen_expr(syms, types, cache, f2s, node)))

\* The name fallback of a dereference.
DerefNameType(var_name) ==
  IF Has(var_name, "ptr") \/ Has(var_name, "aligned_ptr")
    THEN IF Has(var_name, "aligned") THEN "ptr"
         ELSE IF Has(var_name, "char") \/ Has(var_name, "str") THEN "i8"
         ELSE IF Has(var_name, "int") THEN "i64"
         ELSE IF Has(var_name, "float") THEN "float"
         ELSE IF Has(var_name, "double") THEN "double"
         ELSE "i64"
  ELSE "i64"

\* codegen_expr_deref on *node, ptr being what lowering node gave.
DerefPointer(syms, node, ptr) ==
  LET sym == find_symbol(syms, node.name)
      element_type ==
        IF node.type = "identifier" /\ sym.kind \notin {"none", "function"}
          THEN IF sym.element_type # NULL THEN sym.element_type
               ELSE DerefNameType(node.name)
        ELSE NULL
  IN  IF ptr.ty = "null"
        THEN Lowering("null", "null", NULL, ptr.diag, ptr.cache, ptr.f2s)
      ELSE IF Kind(ptr.ty) # "pointer"
        THEN Lowering("null", ptr.ty, NULL,
                      "Error: Attempting to dereference non-pointer type",
                      ptr.cache, ptr.f2s)
      ELSE IF element_type = NULL
        THEN Lowering("load", ptr.ty, "i64",
                      "Warning: Could not determine pointer element type for dereference, defaulting to i64",
                      ptr.cache, ptr.f2s)
      ELSE Lowering("load", ptr.ty, element_type, NULL, ptr.cache, ptr.f2s)

\* codegen_expr_deref on *node.
codegen_expr_deref(syms, types, cache, f2s, node) ==
  DerefPointer(syms, node, codegen_expr(syms, types, cache, f2s, node))

\* The name fallback of a pointer index assignment.
AssignNameType(var_name) ==
  IF Has(var_name, "int") /\ ~Has(var_name, "char") THEN "i64"
  ELSE IF Has(var_name, "double") THEN "double"
  ELSE IF Has(var_name, "float") THEN "float"
  ELSE IF Has(var_name, "char") THEN "i8"
  ELSE NULL

\* Whether a value of value_type can be stored as element_type, as it is or
\* through zext, trunc, fptosi or sitofp.
Storable(element_type, value_type) ==
  \/ /\ Kind(element_type) = Kind(value_type)
     /\ ~(Kind(element_type) = "integer" /\ Width(element_type) # Width(value_type))
  \/ Kind(element_type) = "integer" /\ Kind(value_type) \in {"integer", "float", "double"}
  \/ Kind(element_type) \in {"float", "double"} /\ Kind(value_type) = "integer"

\* The index branch of codegen_expr_assignment on node[i] = v, v being a
\* value of value_type and object what lowering node gave.
AssignObject(syms, node, value_type, object) ==
  LET sym == find_symbol(syms, node.name)
      by_symbol == IF node.type = "identifier" /\ sym.kind \notin {"none", "function"}
                     THEN sym.element_type ELSE NULL
      by_cast == IF by_symbol = NULL /\ node.type = "cast" /\ node.to = "ptr"
                   THEN node.pointee ELSE by_symbol
      by_name == IF by_cast = NULL /\ node.type = "identifier"
                   THEN AssignNameType(node.name) ELSE by_cast
      element_type == IF by_name = NULL THEN value_type ELSE by_name
  IN  IF object.ty = "null"
        THEN Lowering("null", "null", NULL, object.diag, object.cache, object.f2s)
      ELSE IF Kind(object.ty) = "array"
        THEN IF node.type = "identifier" /\ sym.kind = "function"
               THEN Lowering("null", object.ty, NULL,
                             "Error: Array variable not found for assignment",
                             object.cache, object.f2s)
             ELSE Lowering("store", object.ty, ArrayElem(object.ty), NULL,
                           object.cache, object.f2s)
      ELSE IF Kind(object.ty) = "pointer"
        THEN IF by_cast # NULL /\ Kind(by_cast) = "struct" /\ Kind(value_type) # "struct"
               THEN Lowering("null", object.ty, NULL,
                             "Error: Cannot assign scalar value to struct pointer element.",
                             object.cache, object.f2s)
             ELSE IF ~Storable(element_type, value_type)
               THEN Lowering("null", object.ty, NULL,
                             "Error: Cannot convert value type to pointer element type",
                             object.cache, object.f2s)
             ELSE Lowering("store", object.ty, element_type, NULL,
                           object.cache, object.f2s)
      ELSE Lowering("null", object.ty, NULL, "Error: Cannot assign to index of this type",
                    object.cache, object.f2s)

\* codegen_expr_assignment on node[i] = v.
codegen_expr_assignment(syms, types, cache, f2s, node, value_type) ==
  AssignObject(syms, node, value_type, codegen_expr(syms, types, cache, f2s, node))

NoNode == Node("none", <<>>, NULL, NULL, <<>>)

NotLowered ==
  [op |-> "none", node |-> NoNode, levels |-> 0, value_type |-> NULL,
   value |-> "null", object |-> "null", element_type |-> NULL, diag |-> NULL]

\* A scope with one variable and the struct R.
idxInit ==
  /\ \E name \in VarNames, sym \in IxSymbols : symbols = (name :> sym)
  /\ lowered = NotLowered
  /\ lowerings = 0
  /\ \E data_element \in {NULL, "i8"} : struct_types = <<StructR(data_element)>>
  /\ field_to_struct = <<>>
  /\ field_cache = {}
  /\ access = [shape |-> "none", field |-> NULL, value |-> "null", info |-> 0,
               index |-> 0]
  /\ accesses = 0

idxIdle ==
  /\ symbols = <<>>
  /\ lowered = NotLowered
  /\ lowerings = 0

\* The expressions of the scope: over its variable and an undeclared name.
Nodes == NodesOver(DOMAIN symbols \cup {Undeclared})

\* An expression has been lowered to r.
Lowered(op, node, levels, value_type, r) ==
  /\ lowered' = [op |-> op, node |-> node, levels |-> levels,
                 value_type |-> value_type, value |-> r.value, object |-> r.object,
                 element_type |-> r.element_type, diag |-> r.diag]
  /\ field_cache' = r.cache
  /\ field_to_struct' = r.f2s
  /\ lowerings' = lowerings + 1
  /\ UNCHANGED <<symbols, struct_types, access, accesses>>

LowerIndex ==
  /\ lowerings < MaxIndexed
  /\ \E node \in Nodes, levels \in 1..MaxLevels :
       Lowered("index", node, levels, NULL,
               codegen_expr_index(symbols, struct_types, field_cache,
                                  field_to_struct, node, levels))
  /\ UNCHANGED notIdx

LowerDeref ==
  /\ lowerings < MaxIndexed
  /\ \E node \in Nodes :
       Lowered("deref", node, 0, NULL,
               codegen_expr_deref(symbols, struct_types, field_cache,
                                  field_to_struct, node))
  /\ UNCHANGED notIdx

\* p[i] = v; v has been lowered to a value of value_type.
LowerIndexAssign ==
  /\ lowerings < MaxIndexed
  /\ \E node \in Nodes, value_type \in {"i64", "double", "R"} :
       Lowered("assign", node, 1, value_type,
               codegen_expr_assignment(symbols, struct_types, field_cache,
                                       field_to_struct, node, value_type))
  /\ UNCHANGED notIdx

NextIndex == LowerIndex \/ LowerDeref \/ LowerIndexAssign

\* ------------------------------------------------------- the symbol cache
\* Module and symbol names are sequences of characters here, so that the
\* cache key and its hash are computed as the C code computes them.
Code(ch) ==
  CASE ch = "." -> 46 [] ch = ":" -> 58 [] ch = "f" -> 102 [] ch = "g" -> 103
    [] ch = "m" -> 109 [] ch = "n" -> 110 [] ch = "x" -> 120

\* hash = hash * 33 + c on an unsigned int of 32 bits, held as its two
\* halves of 16 bits: hash = hi * 65536 + lo.
RECURSIVE djb2(_, _, _, _)
djb2(str, k, hi, lo) ==
  IF k > Len(str) THEN <<hi, lo>>
  ELSE LET low == (lo * 33) + Code(str[k])
       IN  djb2(str, k + 1, ((hi * 33) + (low \div 65536)) % 65536, low % 65536)

\* hash_string: djb2 from 5381, modulo the table size.
hash_string(str, size) ==
  LET hash == djb2(str, 1, 0, 5381)
  IN  (((hash[1] % size) * (65536 % size)) + (hash[2] % size)) % size

\* snprintf(key, "%s:%s", module_name, symbol_name)
CacheKey(module_name, symbol_name) == module_name \o <<":">> \o symbol_name

\* The entries of a bucket, head first.
BucketOf(cache, bucket) ==
  IF bucket \in DOMAIN cache.buckets THEN cache.buckets[bucket] ELSE <<>>

\* cache_symbol: the entry of the key is overwritten, else a new entry goes
\* to the head of the bucket. symbol is the LLVM_Symbol's address.
cache_symbol(cache, size, module_name, symbol_name, symbol) ==
  LET key == CacheKey(module_name, symbol_name)
      bucket == hash_string(key, size)
      entries == BucketOf(cache, bucket)
      hits == {k \in 1..Len(entries) : entries[k].key = key}
      updated == IF hits # {}
                   THEN [entries EXCEPT ![Min(hits)].symbol = symbol]
                 ELSE <<[key |-> key, symbol |-> symbol]>> \o entries
  IN  [allocated |-> TRUE,
       buckets |-> [b \in DOMAIN cache.buckets \cup {bucket} |->
                      IF b = bucket THEN updated ELSE cache.buckets[b]]]

\* lookup_cached_symbol: the symbol of the key's entry (0: none).
lookup_cached_symbol(cache, size, module_name, symbol_name) ==
  LET key == CacheKey(module_name, symbol_name)
      entries == BucketOf(cache, hash_string(key, size))
      hits == {k \in 1..Len(entries) : entries[k].key = key}
  IN  IF ~cache.allocated \/ hits = {} THEN 0 ELSE entries[Min(hits)].symbol

\* The symbol loop of preprocess_all_modules: every symbol of every unit,
\* in list order, from unit u, symbol k on.
RECURSIVE preprocess_symbols(_, _, _, _, _)
preprocess_symbols(cache, size, us, u, k) ==
  IF u > Len(us) THEN cache
  ELSE IF k > Len(us[u].symbols) THEN preprocess_symbols(cache, size, us, u + 1, 1)
  ELSE preprocess_symbols(cache_symbol(cache, size, us[u].module_name,
                                       us[u].symbols[k].name, us[u].symbols[k].value),
                          size, us, u, k + 1)

\* The LLVM_Symbol find_symbol_in_module gives, by its address (0: none).
FoundSymbol(unit, name) ==
  LET k == find_symbol_in_module(unit, name)
  IN  IF k = 0 THEN 0 ELSE unit.symbols[k].value

\* cache_struct: the entry of the name is overwritten, else added.
cache_struct(cache, name, info) ==
  [n \in DOMAIN cache \cup {name} |-> IF n = name THEN info ELSE cache[n]]

\* The struct loop of preprocess_all_modules, its cache_struct calls, from
\* struct k on.
RECURSIVE preprocess_structs(_, _, _)
preprocess_structs(cache, types, k) ==
  IF k > Len(types) THEN cache
  ELSE preprocess_structs(cache_struct(cache, types[k].name, k), types, k + 1)

\* The first struct of ctx->struct_types that declares the field (0: none).
DeclaringStruct(types, field_name) ==
  LET hits == {k \in 1..Len(types) : get_field_index(types[k], field_name) > 0}
  IN  IF hits = {} THEN 0 ELSE Min(hits)

CacheModules == {<<"m">>, <<"n">>}
CacheSymbolNames == {<<"f">>, <<"g">>, <<"x", ".", "f">>}

NotLookedUp == [module_name |-> NULL, name |-> NULL, cached |-> 0, found |-> 0]

cacheInit ==
  /\ cache_units = <<[module_name |-> <<"n">>, symbols |-> <<>>, globals |-> <<>>,
                      is_main_module |-> FALSE],
                     [module_name |-> <<"m">>, symbols |-> <<>>, globals |-> <<>>,
                      is_main_module |-> FALSE]>>
  /\ table_size \in {1, 4, 256}
  /\ symbol_cache = [allocated |-> FALSE, buckets |-> <<>>]
  /\ struct_types \in {<<StructP(TRUE, TRUE), StructQ(TRUE)>>,
                       <<StructQ(TRUE), StructP(TRUE, TRUE)>>}
  /\ struct_cache = <<>>
  /\ field_to_struct = <<>>
  /\ field_cache = {}
  /\ access = [shape |-> "none", field |-> NULL, value |-> "null", info |-> 0,
               index |-> 0]
  /\ accesses = 0
  /\ cpc = "filling"
  /\ looked_up = NotLookedUp

cacheIdle ==
  /\ cache_units = <<>>
  /\ table_size = 1
  /\ symbol_cache = [allocated |-> FALSE, buckets |-> <<>>]
  /\ struct_cache = <<>>
  /\ cpc = "idle"
  /\ looked_up = NotLookedUp

\* The symbols allocated so far; the next one gets the next address.
Allocated == Len(cache_units[1].symbols) + Len(cache_units[2].symbols)

\* add_symbol_to_module on one of the units.
CacheAddSymbol ==
  /\ cpc \in {"filling", "preprocessed"}
  /\ Allocated < MaxSymbols
  /\ \E u \in 1..Len(cache_units), name \in CacheSymbolNames :
       cache_units' = add_symbol_to_module(cache_units, u, name, Allocated + 1, TRUE)
  /\ cpc' = "filling"
  /\ UNCHANGED <<table_size, symbol_cache, looked_up>>
  /\ UNCHANGED <<struct_types, struct_cache, field_to_struct>>
  /\ UNCHANGED notCache

\* preprocess_all_modules: the symbol loop, then the struct loop.
CachePreprocess ==
  /\ cpc = "filling"
  /\ symbol_cache' = preprocess_symbols(symbol_cache, table_size, cache_units, 1, 1)
  /\ struct_cache' = preprocess_structs(struct_cache, struct_types, 1)
  /\ field_to_struct' = PreprocessFields(field_to_struct, struct_types, 1, 1)
  /\ cpc' = "preprocessed"
  /\ UNCHANGED <<cache_units, table_size, looked_up, struct_types>>
  /\ UNCHANGED notCache

\* One name looked up both ways in one unit.
CacheLookup ==
  /\ cpc \in {"filling", "preprocessed"}
  /\ \E u \in 1..Len(cache_units), name \in CacheSymbolNames :
       looked_up' = [module_name |-> cache_units[u].module_name, name |-> name,
                     cached |-> lookup_cached_symbol(symbol_cache, table_size,
                                                     cache_units[u].module_name, name),
                     found |-> FoundSymbol(cache_units[u], name)]
  /\ UNCHANGED <<cache_units, table_size, symbol_cache, cpc>>
  /\ UNCHANGED <<struct_types, struct_cache, field_to_struct>>
  /\ UNCHANGED notCache

\* find_struct_by_field_cached for one field name, next to the struct the
\* list gives for it.
CacheFieldLookup ==
  /\ cpc \in {"filling", "preprocessed"}
  /\ \E field_name \in FieldNames :
       LET r == find_struct_by_field_cached(field_to_struct, struct_types, field_name)
       IN  /\ field_to_struct' = r.f2s
           /\ looked_up' = [module_name |-> NULL, name |-> field_name,
                            cached |-> r.info,
                            found |-> DeclaringStruct(struct_types, field_name)]
  /\ UNCHANGED <<cache_units, table_size, symbol_cache, cpc>>
  /\ UNCHANGED <<struct_types, struct_cache>>
  /\ UNCHANGED notCache

NextCache == CacheAddSymbol \/ CachePreprocess \/ CacheLookup \/ CacheFieldLookup

\* ----------------------------------------------------- the worker count
DEFAULT_COMPILE_THREADS == 4
MAX_COMPILE_THREADS == 64

\* The value of an environment variable is the sequence of its characters.
DigitChars == <<"0", "1", "2", "3", "4", "5", "6", "7", "8", "9">>

IsDigit(ch) == \E d \in 1..10 : DigitChars[d] = ch

DigitValue(ch) == (CHOOSE d \in 1..10 : DigitChars[d] = ch) - 1

\* atoi, the digits from position k on, acc being the value read so far:
\* reading stops at the first character that is no digit.
RECURSIVE atoi_digits(_, _, _)
atoi_digits(str, k, acc) ==
  IF k > Len(str) \/ ~IsDigit(str[k]) THEN acc
  ELSE atoi_digits(str, k + 1, acc * 10 + DigitValue(str[k]))

\* The first position of the string that holds no white space.
RECURSIVE SkipSpace(_, _)
SkipSpace(str, k) ==
  IF k <= Len(str) /\ str[k] = " " THEN SkipSpace(str, k + 1) ELSE k

\* atoi of the C library: white space, an optional sign, then digits; what
\* follows the digits is ignored, and no digits at all give 0.
atoi(str) ==
  LET k == SkipSpace(str, 1)
  IN  IF k <= Len(str) /\ str[k] = "-" THEN 0 - atoi_digits(str, k + 1, 0)
      ELSE IF k <= Len(str) /\ str[k] = "+" THEN atoi_digits(str, k + 1, 0)
      ELSE atoi_digits(str, k, 0)

\* detect_cpu_count on Linux: what sysconf(_SC_NPROCESSORS_ONLN) gave, 0
\* when that is not positive.
detect_cpu_count(sysconf) == IF sysconf > 0 THEN sysconf ELSE 0

\* get_compile_thread_count. env: whether LUMA_COMPILE_THREADS is set, and
\* its value.
get_compile_thread_count(env, sysconf) ==
  IF env.set /\ atoi(env.value) > 0 /\ atoi(env.value) <= MAX_COMPILE_THREADS
    THEN atoi(env.value)
  ELSE IF detect_cpu_count(sysconf) > 0 THEN detect_cpu_count(sysconf)
  ELSE DEFAULT_COMPILE_THREADS

Unset == [set |-> FALSE, value |-> <<>>]
SetTo(value) == [set |-> TRUE, value |-> value]

\* ------------------------------------------------------- object emission
\* The IR context of the build: init_codegen_context makes one, and
\* create_module_unit makes the IR module of every unit in it.
LLVMContextCreate == "context"

LLVMModuleCreateWithNameInContext(module_name, context) ==
  [name |-> module_name, context |-> context]

\* The units of a program of n modules: create_module_unit prepends, so the
\* list is in reverse order of creation.
EmitUnitNames == <<"main", "a", "b", "c">>

EmitUnits(n) ==
  [k \in 1..n |->
     [module_name |-> EmitUnitNames[n + 1 - k],
      module |-> LLVMModuleCreateWithNameInContext(EmitUnitNames[n + 1 - k],
                                                   LLVMContextCreate)]]

\* What the environment of an emission can be.
EmitEnvs == {Unset, SetTo(<<"1">>), SetTo(<<"2">>)}
EmitCpus == {-1, 3}

NoWorker == [pc |-> "none", module |-> 0, machine |-> 0, output_path |-> <<>>]

emitInit ==
  /\ \E n \in 1..MaxEmitUnits : emit_units = EmitUnits(n)
  /\ thread_count = 0
  /\ tasks = <<>>
  /\ threads = <<>>
  /\ workers = <<>>
  /\ batch_start = 0
  /\ ei = 0
  /\ overall_success = TRUE
  /\ attempted = {}
  /\ epc = "start"
  /\ eret = "none"

emitIdle ==
  /\ emit_units = <<>>
  /\ thread_count = 0
  /\ tasks = <<>>
  /\ threads = <<>>
  /\ workers = <<>>
  /\ batch_start = 0
  /\ ei = 0
  /\ overall_success = TRUE
  /\ attempted = {}
  /\ epc = "idle"
  /\ eret = "none"

module_count == Len(emit_units)

\* batch_end without the batch size: every remaining module in one batch.
BatchEnd_All(start, count, modules_total) == modules_total

\* batch_end of the batch that starts at batch_start.
BatchEnd(start, count, modules_total) ==
  IF start + count > modules_total THEN modules_total ELSE start + count

batch_end == BatchEnd(batch_start, thread_count, module_count)

\* compile_modules_to_objects up to its batch loop: the output directory,
\* the module count, the thread count, the two arrays and the tasks.
EmitStart ==
  /\ epc = "start"
  /\ \E dir_ok \in BOOLEAN, alloc_ok \in BOOLEAN, env \in EmitEnvs,
        sysconf \in EmitCpus :
       IF dir_ok /\ module_count > 0 /\ alloc_ok
       THEN /\ thread_count' =
                 Min({get_compile_thread_count(env, sysconf), module_count})
            /\ tasks' = [k \in 1..module_count |-> [module |-> k, success |-> FALSE]]
            /\ threads' = [k \in 1..module_count |-> "uninit"]
            /\ workers' = [k \in 1..module_count |-> NoWorker]
            /\ epc' = "launch"
            /\ UNCHANGED eret
       ELSE /\ eret' = "false"
            /\ epc' = "returned"
            /\ UNCHANGED <<thread_count, tasks, threads, workers>>
  /\ UNCHANGED <<emit_units, batch_start, ei, overall_success, attempted>>
  /\ UNCHANGED notEmit

\* The launch loop, one pthread_create: the worker starts, or the task is
\* marked failed and its handle stays as malloc left it.
Launch ==
  /\ epc = "launch" /\ ei < batch_end
  /\ \E created \in BOOLEAN :
       IF created
       THEN /\ threads' = [threads EXCEPT ![ei + 1] = "running"]
            /\ workers' = [workers EXCEPT ![ei + 1] = [NoWorker EXCEPT !.pc = "start"]]
            /\ UNCHANGED <<tasks, overall_success>>
       ELSE /\ tasks' = [tasks EXCEPT ![ei + 1].success = FALSE]
            /\ overall_success' = FALSE
            /\ UNCHANGED <<threads, workers>>
  /\ ei' = ei + 1
  /\ UNCHANGED <<emit_units, thread_count, batch_start, attempted, epc, eret>>
  /\ UNCHANGED notEmit

\* The launch loop is over: the join loop starts at the batch's first task.
LaunchDone ==
  /\ epc = "launch" /\ ei = batch_end
  /\ epc' = "join"
  /\ ei' = batch_start
  /\ UNCHANGED <<emit_units, thread_count, tasks, threads, workers, batch_start,
                 overall_success, attempted, eret>>
  /\ UNCHANGED notEmit

\* What the join loop does once pthread_join has come back.
Joined ==
  /\ overall_success' = (overall_success /\ tasks[ei + 1].success)
  /\ ei' = ei + 1

\* The join loop, pthread_join on the handle of a started worker: it comes
\* back once the worker has ended.
Join ==
  /\ epc = "join" /\ ei < batch_end
  /\ threads[ei + 1] = "exited"
  /\ threads' = [threads EXCEPT ![ei + 1] = "joined"]
  /\ Joined
  /\ UNCHANGED <<emit_units, thread_count, tasks, workers, batch_start, attempted,
                 epc, eret>>
  /\ UNCHANGED notEmit

\* The join loop, pthread_join on a handle pthread_create never filled in:
\* the call reads an indeterminate pthread_t, so it may come back with an
\* error or take the process down.
JoinUninitialised ==
  /\ epc = "join" /\ ei < batch_end
  /\ threads[ei + 1] = "uninit"
  /\ \E outcome \in {"returned", "crashed"} :
       IF outcome = "returned"
       THEN Joined /\ UNCHANGED epc
       ELSE epc' = "crashed" /\ UNCHANGED <<overall_success, ei>>
  /\ UNCHANGED <<emit_units, thread_count, tasks, threads, workers, batch_start,
                 attempted, eret>>
  /\ UNCHANGED notEmit

\* The join loop is over: the next batch, or the return of overall_success.
JoinDone ==
  /\ epc = "join" /\ ei = batch_end
  /\ batch_start' = batch_start + thread_count
  /\ IF batch_start + thread_count < module_count
     THEN /\ epc' = "launch"
          /\ ei' = batch_start + thread_count
          /\ UNCHANGED eret
     ELSE /\ epc' = "returned"
          /\ eret' = IF overall_success THEN "true" ELSE "false"
          /\ UNCHANGED ei
  /\ UNCHANGED <<emit_units, thread_count, tasks, threads, workers,
                 overall_success, attempted>>
  /\ UNCHANGED notEmit

\* The path compile_module_worker formats: output_dir/module_name.o (the
\* names here are far shorter than MAX_PATH_LENGTH).
OutputPath(output_dir, module_name) == <<output_dir, "/", module_name, ".o">>

\* compile_module_worker up to the emission: generate_module_object_file is
\* called, makes its own target machine and sets the module's target.
WorkerBegin ==
  /\ epc \in {"launch", "join"}
  /\ \E w \in 1..Len(workers) :
       /\ threads[w] = "running" /\ workers[w].pc = "start"
       /\ attempted' = attempted \cup {w}
       /\ \E machine_ok \in BOOLEAN :
            IF machine_ok
            THEN /\ workers' = [workers EXCEPT ![w] =
                      [pc |-> "emit", module |-> tasks[w].module, machine |-> w,
                       output_path |-> OutputPath("obj",
                                         emit_units[tasks[w].module].module_name)]]
                 /\ UNCHANGED <<tasks, threads>>
            ELSE /\ workers' = [workers EXCEPT ![w] = [NoWorker EXCEPT !.pc = "end"]]
                 /\ tasks' = [tasks EXCEPT ![w].success = FALSE]
                 /\ threads' = [threads EXCEPT ![w] = "exited"]
  /\ UNCHANGED <<emit_units, thread_count, batch_start, ei, overall_success,
                 epc, eret>>
  /\ UNCHANGED notEmit

\* LLVMTargetMachineEmitToFile and the rest of the worker: the machine is
\* disposed, the task gets the result, the thread ends.
WorkerEmit ==
  /\ epc \in {"launch", "join"}
  /\ \E w \in 1..Len(workers) :
       /\ threads[w] = "running" /\ workers[w].pc = "emit"
       /\ \E emitted_ok \in BOOLEAN :
            tasks' = [tasks EXCEPT ![w].success = emitted_ok]
       /\ workers' = [workers EXCEPT ![w] = [NoWorker EXCEPT !.pc = "end"]]
       /\ threads' = [threads EXCEPT ![w] = "exited"]
  /\ UNCHANGED <<emit_units, thread_count, batch_start, ei, overall_success,
                 attempted, epc, eret>>
  /\ UNCHANGED notEmit

NextEmit ==
  \/ EmitStart \/ Launch \/ LaunchDone \/ Join \/ JoinUninitialised \/ JoinDone
  \/ WorkerBegin \/ WorkerEmit

\* ---------------------------------------------------------------- linking
\* link_object_files builds its commands in fixed buffers; a command is
\* modelled by its length and by the units whose object path it holds in
\* full. A name is given by its length.
CommandSize == 4096
ObjPathSize == 512

\* snprintf into a buffer of that size: what does not fit is dropped.
snprintf(size, len) == IF len > size - 1 THEN size - 1 ELSE len

\* "cc -O%d -pie -o %s" or "cc -pie -o %s", opt_level being one digit.
CcCommand(opt_level, executable_len) ==
  [tool |-> "cc",
   len |-> snprintf(CommandSize, (IF opt_level > 0 THEN 15 ELSE 11) + executable_len),
   listed |-> {}]

\* "gcc -O%d -no-pie -o %s".
GccCommand(opt_level, executable_len) ==
  [tool |-> "gcc",
   len |-> snprintf(CommandSize, 19 + executable_len),
   listed |-> {}]

\* " %s/%s.o" as it is long in full.
ObjPathLen(output_dir_len, name_len) == 1 + output_dir_len + 1 + name_len + 2

\* strncat(command, obj_path, sizeof(command) - strlen(command) - 1) after
\* the snprintf into obj_path, for unit k: the unit is listed when its
\* whole path arrived in the command.
AppendObject(command, output_dir_len, name_len, k) ==
  LET full == ObjPathLen(output_dir_len, name_len)
      obj_path == snprintf(ObjPathSize, full)
      room == CommandSize - command.len - 1
      taken == IF obj_path > room THEN room ELSE obj_path
  IN  [command EXCEPT !.len = command.len + taken,
                      !.listed = IF taken = full THEN @ \cup {k} ELSE @]

\* The loop over ctx->modules that appends every unit's object path.
RECURSIVE AppendObjects(_, _, _, _)
AppendObjects(command, output_dir_len, names, k) ==
  IF k > Len(names) THEN command
  ELSE AppendObjects(AppendObject(command, output_dir_len, names[k], k),
                     output_dir_len, names, k + 1)

\* Lengths of module names, of executable names ("output", or as long as
\* generate_llvm_code_modules' exe_file lets it be).
LinkNameLens == {1, 10, 250}
ExecutableLens == {6, 255}
\* "obj"
OutputDirLen == 3

linkInit ==
  /\ \E n \in 1..MaxLinkUnits, name_len \in LinkNameLens,
        executable_len \in ExecutableLens, opt_level \in {0, 2} :
       link_in = [units |-> [k \in 1..n |-> name_len],
                  executable_len |-> executable_len, opt_level |-> opt_level]
  /\ commands = <<>>
  /\ lpc = "start"
  /\ lret = "none"

linkIdle ==
  /\ link_in = [units |-> <<>>, executable_len |-> 0, opt_level |-> 0]
  /\ commands = <<>>
  /\ lpc = "idle"
  /\ lret = "none"

\* system(): the command is run and its status comes back.
system(command, status) == command @@ [status |-> status]

\* link_object_files up to the test of cc's status.
RunCc ==
  /\ lpc = "start"
  /\ \E status \in {0, 1} :
       /\ commands' = Append(commands,
            system(AppendObjects(CcCommand(link_in.opt_level, link_in.executable_len),
                                 OutputDirLen, link_in.units, 1), status))
       /\ IF status # 0
          THEN lpc' = "fallback" /\ UNCHANGED lret
          ELSE lpc' = "returned" /\ lret' = "true"
  /\ UNCHANGED link_in
  /\ UNCHANGED notLink

\* The fallback: gcc with the same object files, and the return.
RunGcc ==
  /\ lpc = "fallback"
  /\ \E status \in {0, 1} :
       /\ commands' = Append(commands,
            system(AppendObjects(GccCommand(link_in.opt_level, link_in.executable_len),
                                 OutputDirLen, link_in.units, 1), status))
       /\ lret' = IF status # 0 THEN "false" ELSE "true"
  /\ lpc' = "returned"
  /\ UNCHANGED link_in
  /\ UNCHANGED notLink

NextLink == RunCc \/ RunGcc

\* ------------------------------------------- the worker count, as a function
\* The characters LUMA_COMPILE_THREADS is made of here.
EnvChars == {"0", "1", "4", "5", "6", "x", "-", " "}

ThreadEnvs == {Unset} \cup {SetTo(v) : v \in SeqsUpTo(EnvChars, MaxEnvLen)}
ThreadCpus == {-1, 0, 2, 128}

NotApplied == [applied |-> FALSE]

threadsInit ==
  /\ input \in [env : ThreadEnvs, sysconf : ThreadCpus, module_count : 1..3]
  /\ output = NotApplied

fnIdle ==
  /\ input = [env |-> Unset, sysconf |-> 0, module_count |-> 0]
  /\ output = NotApplied

\* compile_modules_to_objects, "Determine thread count": the count
\* get_compile_thread_count gives, and the count used after the clamp to
\* the number of modules.
DetermineThreadCount ==
  /\ ~output.applied
  /\ LET count == get_compile_thread_count(input.env, input.sysconf)
     IN  output' = [applied |-> TRUE, count |-> count,
                    thread_count |-> IF count > input.module_count
                                     THEN input.module_count ELSE count]
  /\ UNCHANGED input
  /\ UNCHANGED notFn

NextThreads == DetermineThreadCount

\* ------------------------------------------------- import path resolution
\* A path is the sequence of its characters. The files that exist: those a
\* path as given names, and those under the standard-library roots.
ImportPaths ==
  {<<"i", "o">>, <<"s", "t", "d">>, <<"s", "t", "d", "/", "i", "o">>,
   <<"s", "t", "d", "\\", "i", "o">>, <<"l", "/", "i", "o">>,
   <<"s", "t", "d", "/", "s", "t", "d">>}

StdRoots == <<"root1", "root2">>

\* strncmp(path, prefix, Len(prefix)) == 0.
HasPrefix(path, prefix) ==
  Len(path) >= Len(prefix) /\ SubSeq(path, 1, Len(prefix)) = prefix

\* strchr(path, ch) != NULL.
strchr(path, ch) == \E k \in 1..Len(path) : path[k] = ch

\* resolve_std_path: the first standard-library root that holds the path
\* (0: none does).
resolve_std_path(std_files, path) ==
  LET hits == {r \in 1..Len(StdRoots) : <<StdRoots[r], path>> \in std_files}
  IN  IF hits = {} THEN 0 ELSE Min(hits)

\* resolve_import_path: [path, std], std telling whether path is below a
\* standard-library root; path NULL when the function returns NULL.
resolve_import_path(std_files, path) ==
  LET std_prefixed == <<"s", "t", "d", "/">> \o path
      has_sep == strchr(path, "/")
  IN  IF HasPrefix(path, <<"s", "t", "d", "/">>) \/ HasPrefix(path, <<"s", "t", "d", "\\">>)
        THEN IF resolve_std_path(std_files, path) # 0
               THEN [found |-> TRUE, std |-> TRUE,
                     path |-> <<StdRoots[resolve_std_path(std_files, path)]>> \o path]
             ELSE [found |-> FALSE, std |-> FALSE, path |-> <<>>]
      ELSE IF ~has_sep /\ resolve_std_path(std_files, std_prefixed) # 0
        THEN [found |-> TRUE, std |-> TRUE,
              path |-> <<StdRoots[resolve_std_path(std_files, std_prefixed)]>>
                         \o std_prefixed]
      ELSE [found |-> TRUE, std |-> FALSE, path |-> path]

\* The standard-library files a root can hold.
StdFiles == {<<r, p>> : r \in {"root1", "root2"},
                        p \in {<<"s", "t", "d", "/", "i", "o">>,
                               <<"s", "t", "d", "/", "s", "t", "d">>}}

resolveInit ==
  /\ input \in [path : ImportPaths, exists : BOOLEAN, std_files : SUBSET StdFiles]
  /\ output = NotApplied

\* parse_file_to_module's first step: the path is resolved.
ResolvePath ==
  /\ ~output.applied
  /\ output' = [applied |-> TRUE] @@ resolve_import_path(input.std_files, input.path)
  /\ UNCHANGED input
  /\ UNCHANGED notFn

NextResolve == ResolvePath

\* ------------------------------------------------- runtime member access
\* The object of X.m: an identifier, or an expression of a kind the router
\* of codegen_expr_struct_access has no handler for.
ObjectTypes == {"identifier", "literal"}

\* The identifiers X, and the unit lists of the context.
ObjectNames == {"M", "main", "v"}
MemberUnitNames == {<<"main">>, <<"main", "M">>, <<"M", "main">>}

\* What the scope holds under the object's name: nothing, a function, or a
\* variable of some type.
MemberSymbols == Symbols \cup {[kind |-> "i64", element_type |-> NULL]}

\* codegen_expr_struct_access for the two kinds of object.
codegen_expr_struct_access(types, cache, f2s, object_type, sym, field_name) ==
  IF object_type = "identifier"
    THEN handle_identifier_member(types, cache, f2s, sym, field_name)
  ELSE Failed(cache, f2s)

\* What the member access gives: the value, the diagnostic of this function
\* ("none": it printed nothing itself), and the struct and field index when
\* the access was lowered as a struct access.
MemberAccess(value, msg, info, index) ==
  [value |-> value, msg |-> msg, info |-> info, index |-> index]

StructAccess(r) == MemberAccess(r.value, "none", r.info, r.index)

\* codegen_expr_member_access_enhanced for a runtime access X.m
\* (is_compiletime false): a variable of struct type, or a pointer whose
\* element type is a struct, is a struct access; otherwise the name of a
\* unit is the module error; otherwise the symbol must be a variable.
codegen_expr_member_access_enhanced(syms, unit_names, types, cache, f2s, object_type, object_name, member) ==
  LET local_sym == find_symbol(syms, object_name)
      is_struct_access ==
        \/ local_sym.kind \in StructKinds
        \/ local_sym.kind = "ptr" /\ local_sym.element_type \in StructKinds
      is_module_access == \E k \in 1..Len(unit_names) : unit_names[k] = object_name
      routed == codegen_expr_struct_access(types, cache, f2s, object_type, local_sym, member)
  IN  IF object_type # "identifier" THEN StructAccess(routed)
      ELSE IF local_sym.kind \notin {"none", "function"} /\ is_struct_access
        THEN StructAccess(routed)
      ELSE IF is_module_access THEN MemberAccess("null", "did_you_mean", 0, 0)
      ELSE IF local_sym.kind = "none" THEN MemberAccess("null", "undefined", 0, 0)
      ELSE IF local_sym.kind = "function" THEN MemberAccess("null", "on_function", 0, 0)
      ELSE StructAccess(routed)

memberInit ==
  /\ input \in [object_type : ObjectTypes, object_name : ObjectNames,
                member : FieldNames, sym : MemberSymbols,
                unit_names : MemberUnitNames]
  /\ output = NotApplied

\* The scope of the access: the object's name bound to the symbol, or not
\* bound at all.
ScopeOf(object_name, sym) ==
  IF sym.kind = "none" THEN <<>> ELSE (object_name :> sym)

\* codegen_expr lowers the member expression X.m.
LowerMember ==
  /\ ~output.applied
  /\ output' = [applied |-> TRUE]
       @@ codegen_expr_member_access_enhanced(
            ScopeOf(input.object_name, input.sym), input.unit_names,
            <<StructP(TRUE, TRUE), StructQ(TRUE)>>, {}, <<>>,
            input.object_type, input.object_name, input.member)
  /\ UNCHANGED input
  /\ UNCHANGED notFn

NextMember == LowerMember

\* ------------------------------------------------------------- sizeof<T>
\* LLVM types: an integer of a width, float, double, pointer, an array of
\* an element type and a length, a struct of field types.
IntType(width) == [kind |-> "integer", width |-> width]
FloatType == [kind |-> "float"]
DoubleType == [kind |-> "double"]
PointerType == [kind |-> "pointer"]
ArrayType(elem, len) == [kind |-> "array", elem |-> elem, len |-> len]
StructType(fields) == [kind |-> "struct", fields |-> fields]

\* i1, i8, i16, i32, i64, f32, f64, pointer.
PrimitiveTypes ==
  {IntType(w) : w \in {1, 8, 16, 32, 64}} \cup {FloatType, DoubleType, PointerType}

\* What a division by zero becomes: a trap that ends the compiler, or a
\* quotient of zero, which leaves x % 0 = x.
DivZeroOutcomes == {"trap", "zero"}

\* x % y of the C code, y = 0 under the outcome "zero".
Mod(x, y) == IF y = 0 THEN x ELSE x % y

\* [fsize, falign] of one field: the inner switch.
FieldLayout(ftype) ==
  CASE ftype.kind = "integer" ->
         [fsize |-> ftype.width \div 8,
          falign |-> IF ftype.width \div 8 > 8 THEN 8 ELSE ftype.width \div 8]
    [] ftype.kind = "float" -> [fsize |-> 4, falign |-> 4]
    [] ftype.kind = "double" -> [fsize |-> 8, falign |-> 8]
    [] ftype.kind = "pointer" -> [fsize |-> 8, falign |-> 8]
    [] OTHER -> [fsize |-> 8, falign |-> 8]

\* "align current offset": total_size += falign - (total_size % falign),
\* in uint64_t; with falign 0 the sum wraps round to 0.
AlignTo(total_size, align) ==
  IF Mod(total_size, align) = 0 THEN total_size
  ELSE IF align = 0 THEN 0
  ELSE total_size + align - (total_size % align)

\* The loop over the fields from field k on: [crashed, total_size,
\* max_align].
RECURSIVE LayoutFields(_, _, _, _, _)
LayoutFields(field_types, k, total_size, max_align, div_zero) ==
  IF k > Len(field_types)
    THEN [crashed |-> FALSE, total_size |-> total_size, max_align |-> max_align]
  ELSE LET l == FieldLayout(field_types[k])
       IN  IF l.falign = 0 /\ div_zero = "trap"
             THEN [crashed |-> TRUE, total_size |-> total_size, max_align |-> max_align]
           ELSE LayoutFields(field_types, k + 1,
                             AlignTo(total_size, l.falign) + l.fsize,
                             IF l.falign > max_align THEN l.falign ELSE max_align,
                             div_zero)

\* codegen_expr_sizeof on a type: [value, size], value "const" with the
\* i64 constant's size, or "crashed".
codegen_expr_sizeof(type, div_zero) ==
  LET laid == LayoutFields(type.fields, 1, 0, 1, div_zero)
  IN  CASE type.kind = "integer" -> [value |-> "const", size |-> type.width \div 8]
        [] type.kind = "float" -> [value |-> "const", size |-> 4]
        [] type.kind = "double" -> [value |-> "const", size |-> 8]
        [] type.kind = "pointer" -> [value |-> "const", size |-> 8]
        [] type.kind = "struct" ->
             IF laid.crashed THEN [value |-> "crashed", size |-> 0]
             ELSE [value |-> "const",
                   size |-> AlignTo(laid.total_size, laid.max_align)]
        [] OTHER -> [value |-> "const", size |-> 8]

\* The types sizeof is applied to: the primitives, arrays of them, and
\* structs whose fields are primitives, arrays or a struct.
ArrayTypes == {ArrayType(e, n) : e \in PrimitiveTypes, n \in 1..MaxArrayLen}
InnerStruct == StructType(<<IntType(8), IntType(32)>>)
FieldTypes == PrimitiveTypes \cup {ArrayType(IntType(8), MaxArrayLen),
                                   ArrayType(IntType(64), MaxArrayLen), InnerStruct}
StructTypes == {StructType(f) : f \in SeqsUpTo(FieldTypes, MaxFields)}
SizeofTypes == PrimitiveTypes \cup ArrayTypes \cup StructTypes

sizeofInit ==
  /\ input \in [type : SizeofTypes, div_zero : DivZeroOutcomes]
  /\ output = NotApplied

\* codegen_expr lowers sizeof<T>.
LowerSizeof ==
  /\ ~output.applied
  /\ output' = [applied |-> TRUE] @@ codegen_expr_sizeof(input.type, input.div_zero)
  /\ UNCHANGED input
  /\ UNCHANGED notFn

NextSizeof == LowerSizeof

\* --------------------------------------------- struct member assignment
\* What the member branch of codegen_expr_assignment gives: "stored" with
\* the struct and field index the GEP was built on, or "null".
Assigned(value, info, index) == [value |-> value, info |-> info, index |-> index]

\* codegen_expr_assignment on obj.field = value, obj an identifier and the
\* value lowered: the struct is the first of the list that has a field of
\* that name, the symbol's type is looked at afterwards.
AssignMember(types, sym, field_name) ==
  LET hits == {k \in 1..Len(types) : get_field_index(types[k], field_name) > 0}
      struct_info == Min(hits)
      field_index == get_field_index(types[struct_info], field_name)
  IN  IF sym.kind \in {"none", "function"} THEN Assigned("null", 0, 0)
      ELSE IF hits = {} THEN Assigned("null", 0, 0)
      ELSE IF ~is_field_access_allowed(types[struct_info], field_index)
        THEN Assigned("null", 0, 0)
      ELSE IF sym.kind = "ptr" THEN Assigned("stored", struct_info, field_index)
      ELSE IF sym.kind = types[struct_info].name
        THEN Assigned("stored", struct_info, field_index)
      ELSE Assigned("null", 0, 0)

\* The registered structs, in both orders, with every choice of public
\* fields; the field-to-struct cache as preprocess_all_modules fills it.
assignInit ==
  /\ input \in [types : {<<StructP(s1, q), StructQ(s2)>> :
                            s1 \in BOOLEAN, q \in BOOLEAN, s2 \in BOOLEAN}
                         \cup {<<StructQ(s2), StructP(s1, q)>> :
                                 s1 \in BOOLEAN, q \in BOOLEAN, s2 \in BOOLEAN},
                 sym : Symbols, field : FieldNames]
  /\ output = NotApplied

\* obj.field = v is lowered.
LowerMemberAssign ==
  /\ DOMAIN output = {"applied"}
  /\ output' = output @@ [assign |-> AssignMember(input.types, input.sym, input.field)]
  /\ UNCHANGED input
  /\ UNCHANGED notFn

\* obj.field is read after the assignment.
LowerMemberRead ==
  /\ ~output.applied /\ "assign" \in DOMAIN output
  /\ LET r == handle_identifier_member(
                 input.types, {}, PreprocessFields(<<>>, input.types, 1, 1),
                 input.sym, input.field)
     IN  output' = [applied |-> TRUE, assign |-> output.assign,
                    read |-> Assigned(r.value, r.info, r.index)]
  /\ UNCHANGED input
  /\ UNCHANGED notFn

NextAssign == LowerMemberAssign \/ LowerMemberRead

moreIdle == emitIdle /\ linkIdle /\ fnIdle

\* --------------------------------------------------------- specifications
Init == cgInit /\ bdIdle /\ fldIdle /\ idxIdle /\ cacheIdle /\ moreIdle

Spec == Init /\ [][Next]_vars

InitBuild == bdInit /\ cgIdle /\ fldIdle /\ idxIdle /\ cacheIdle /\ moreIdle

SpecBuild == InitBuild /\ [][NextBuild]_vars

InitDecl == declInit /\ bdIdle /\ fldIdle /\ idxIdle /\ cacheIdle /\ moreIdle

SpecDecl == InitDecl /\ [][NextDecl]_vars

InitField == fldInit /\ cgIdle /\ bdIdle /\ idxIdle /\ cacheIdle /\ moreIdle

SpecField == InitField /\ [][NextField]_vars

InitIndex == idxInit /\ cgIdle /\ bdIdle /\ cacheIdle /\ moreIdle

SpecIndex == InitIndex /\ [][NextIndex]_vars

InitCache == cacheInit /\ cgIdle /\ bdIdle /\ idxIdle /\ moreIdle

SpecCache == InitCache /\ [][NextCache]_vars

InitEmit == emitInit /\ cgIdle /\ bdIdle /\ fldIdle /\ idxIdle /\ cacheIdle /\ linkIdle /\ fnIdle

SpecEmit == InitEmit /\ [][NextEmit]_vars

InitLink == linkInit /\ cgIdle /\ bdIdle /\ fldIdle /\ idxIdle /\ cacheIdle /\ emitIdle /\ fnIdle

SpecLink == InitLink /\ [][NextLink]_vars

InitThreads == threadsInit /\ cgIdle /\ bdIdle /\ fldIdle /\ idxIdle /\ cacheIdle /\ emitIdle /\ linkIdle

SpecThreads == InitThreads /\ [][NextThreads]_vars

InitResolve == resolveInit /\ cgIdle /\ bdIdle /\ fldIdle /\ idxIdle /\ cacheIdle /\ emitIdle /\ linkIdle

SpecResolve == InitResolve /\ [][NextResolve]_vars

InitMember == memberInit /\ cgIdle /\ bdIdle /\ fldIdle /\ idxIdle /\ cacheIdle /\ emitIdle /\ linkIdle

SpecMember == InitMember /\ [][NextMember]_vars

InitSizeof == sizeofInit /\ cgIdle /\ bdIdle /\ fldIdle /\ idxIdle /\ cacheIdle /\ emitIdle /\ linkIdle

SpecSizeof == InitSizeof /\ [][NextSizeof]_vars

InitAssign == assignInit /\ cgIdle /\ bdIdle /\ fldIdle /\ idxIdle /\ cacheIdle /\ emitIdle /\ linkIdle

SpecAssign == InitAssign /\ [][NextAssign]_vars

\* ----------------------------------------- properties of the input program
ModIdx == 1..Len(modules)

DistinctNames ==
  \A p \in ModIdx, q \in ModIdx : p # q => modules[p].name # modules[q].name

\* M has a @use that names N.
Uses(m, n) ==
  \E d \in 1..Len(modules[m].uses) : modules[m].uses[d].module_name = modules[n].name

\* Every @use names a module of the program.
Resolved ==
  \A m \in ModIdx : \A d \in 1..Len(modules[m].uses) :
    \E n \in ModIdx : modules[n].name = modules[m].uses[d].module_name

\* The modules a chain of one to k + 1 @use directives leads to from those of S.
RECURSIVE UsedFrom(_, _)
UsedFrom(S, k) ==
  LET next == {n \in ModIdx : \E m \in S : Uses(m, n)}
  IN  IF k = 0 THEN next
      ELSE next \cup UsedFrom(next, k - 1)

\* No module is led back to itself by a chain of @use directives.
Acyclic == \A m \in ModIdx : m \notin UsedFrom({m}, Len(modules))

\* How often codegen_stmt ran on statement s of module m.
EmitCount(m, s) == Cardinality({p \in 1..Len(emitted) : emitted[p] = <<m, s>>})

\* codegen_stmt_program_multi_module has returned.
Returned == ret.cg # "none"

\* The modules a chain of @use directives leads to from the main file.
RECURSIVE ImportsFrom(_, _)
ImportsFrom(S, k) ==
  LET next == S \cup UNION {sources.others[f] : f \in S}
  IN  IF k = 0 THEN S ELSE ImportsFrom(next, k - 1)

ReachableFromMain ==
  ImportsFrom({sources.main[k] : k \in 1..Len(sources.main)}, Cardinality(ImportNames))

\* How often a module of that name is in run_build's module list.
LoadCount(name) == Cardinality({k \in 1..Len(loaded) : loaded[k] = name})

\* ------------------------------------------------------------------ claims
\* C1: for an acyclic @use graph in which every @use names a module of the
\* program, whenever M uses N every statement of N's body has been emitted,
\* and N is marked processed, before the first statement of M's body is
\* emitted, and none of N's is emitted after it; this for every order of the
\* modules in the program.
C1_DependencyOrder ==
  (Resolved /\ Acyclic) =>
    \A m \in ModIdx, n \in ModIdx :
      Uses(m, n) =>
        \A p \in 1..Len(emitted) :
          emitted[p][1] = m =>
            /\ dep_info[n].processed
            /\ \A s \in 1..Len(modules[n].body) :
                 \E q \in 1..(p - 1) : emitted[q] = <<n, s>>
            /\ \A q \in p..Len(emitted) : emitted[q][1] # n

\* A module listed before the module it uses, both emitted, Pass 3 complete.
C1_Witness ==
  /\ Acyclic /\ Resolved /\ ret.cg = "completed"
  /\ \E m \in ModIdx, n \in ModIdx :
       /\ m < n /\ Uses(m, n)
       /\ \E h \in ModIdx : Uses(n, h)
       /\ EmitCount(m, 1) = 1 /\ EmitCount(n, 1) = 1

\* C2 (as amended): for a program of N modules with pairwise distinct names
\* in which every @use names a module of the program, once
\* codegen_stmt_program_multi_module has returned there are exactly N units,
\* their names are pairwise distinct, and every statement of every module's
\* body was emitted exactly once.
C2_UnitsAndEmission ==
  (Returned /\ DistinctNames /\ Resolved) =>
    /\ Len(units) = Len(modules)
    /\ Cardinality(UnitNames(units)) = Len(units)
    /\ \A m \in ModIdx : \A s \in 1..Len(modules[m].body) : EmitCount(m, s) = 1

\* Three modules, one used by two others, all emitted.
C2_Witness ==
  /\ Returned /\ DistinctNames /\ Resolved /\ Len(modules) = 3
  /\ \E m \in ModIdx, n \in ModIdx, h \in ModIdx :
       m # n /\ Uses(m, h) /\ Uses(n, h) /\ h \notin {m, n}
  /\ Len(emitted) = 5

\* C2 as stated: distinct names alone are the precondition.
C2_Original ==
  (Returned /\ DistinctNames) =>
    /\ Len(units) = Len(modules)
    /\ Cardinality(UnitNames(units)) = Len(units)
    /\ \A m \in ModIdx : \A s \in 1..Len(modules[m].body) : EmitCount(m, s) = 1

\* C3: when two modules of the program share a name, "Duplicate module
\* definition" is reported and neither generate_program_modules nor
\* generate_llvm_code_modules returns true, whatever emission and linking do.
C3_DuplicateFails ==
  ~DistinctNames =>
    /\ Returned => /\ ret.cg = "duplicate"
                   /\ \E p \in 1..Len(diag) : diag[p] = "Duplicate module definition"
    /\ ret.gpm # "true"
    /\ ret.glcm # "true"

\* C4: at the end of Pass 2, before Pass 3 starts, the symbol list of every
\* module M with a @use of another module N holds an entry for each public
\* function and global of N, under its raw name or under alias.name.
C4_ImportsComplete ==
  pc = "preprocess" =>
    \A m \in ModIdx, n \in ModIdx :
      m # n =>
        \A d \in 1..Len(modules[m].uses) :
          modules[m].uses[d].module_name = modules[n].name =>
            \A s \in 1..Len(modules[n].body) :
              modules[n].body[s].is_public =>
                find_symbol_in_module(
                  units[find_module(units, modules[m].name)],
                  ImportedName(modules[m].uses[d].alias, modules[n].body[s].name)) # 0

\* C5: once the import loop of run_build is over, every module reachable
\* from the main module through @use directives, directly or through other
\* modules, is in the module list exactly once.
C5_ReachableLoadedOnce ==
  bpc = "combined" =>
    \A name \in ReachableFromMain \cup {"main"} : LoadCount(name) = 1

C7_OnlyPublicFields ==
  access.value = "lowered" =>
    /\ access.index > 0
    /\ struct_types[access.info].field_is_public[access.index]

\* The element types the lowered expression's metadata gives: the
\* element_type recorded on the variable, the pointee of the cast, the
\* element type of the last field of the member path.
ElementSources ==
  LET node == lowered.node
      sym == find_symbol(symbols, node.name)
      field == FieldElementType(symbols, struct_types, node)
  IN  (IF node.type = "identifier" /\ sym.kind \notin {"none", "function"}
            /\ sym.element_type # NULL
         THEN {sym.element_type} ELSE {})
      \cup (IF node.type = "cast" /\ node.to = "ptr" THEN {node.pointee} ELSE {})
      \cup (IF node.type = "member" /\ field # NULL THEN {field} ELSE {})

\* C8: a pointer index read that lowers successfully loads with an element
\* type its metadata gives (the symbol's element_type, the cast's pointee or
\* the struct field metadata), never one read off the variable's name.
C8_ElementTypeFromMetadata ==
  (lowered.op = "index" /\ lowered.value = "load" /\ Kind(lowered.object) = "pointer")
    => lowered.element_type \in ElementSources

\* C9: a dereference or an index assignment on a pointer whose element type
\* no metadata gives fails: the null sentinel, a diagnostic, and no load or
\* store with a defaulted element type.
C9_UndeterminedFails ==
  (lowered.op \in {"deref", "assign"} /\ Kind(lowered.object) = "pointer"
     /\ ElementSources = {})
    => (lowered.value = "null" /\ lowered.diag # NULL /\ lowered.element_type = NULL)

\* C10: right after preprocess_all_modules, for every unit and every name in
\* its symbol list, lookup_cached_symbol gives the LLVM_Symbol that
\* find_symbol_in_module gives, also for a name the list has more than once.
C10_CacheCoherent ==
  cpc = "preprocessed" =>
    \A u \in 1..Len(cache_units) : \A k \in 1..Len(cache_units[u].symbols) :
      LET name == cache_units[u].symbols[k].name
      IN  lookup_cached_symbol(symbol_cache, table_size,
                               cache_units[u].module_name, name)
            = FoundSymbol(cache_units[u], name)

\* C11: right after preprocess_all_modules, for every registered struct S
\* and every field f of S, find_struct_by_field_cached(f) gives S, also when
\* another registered struct declares a field named f.
C11_FieldCacheCoherent ==
  cpc = "preprocessed" =>
    \A k \in 1..Len(struct_types) :
      \A f \in 1..Len(struct_types[k].field_names) :
        find_struct_by_field_cached(field_to_struct, struct_types,
                                    struct_types[k].field_names[f]).info = k

\* The batch a task belongs to.
BatchOf(k) == (k - 1) \div thread_count

\* The workers that were started and are not joined yet.
Unjoined == {k \in 1..Len(threads) : threads[k] \in {"running", "exited"}}

\* C12: in compile_modules_to_objects the workers started and not yet
\* joined are never more than the worker count, and a worker is started
\* only when every worker started in an earlier batch has been joined.
C12_BoundedBatches ==
  /\ Cardinality(Unjoined) <= thread_count
  /\ \A a \in 1..Len(threads) : \A b \in 1..Len(threads) :
       (threads[a] # "uninit" /\ threads[b] # "uninit" /\ BatchOf(a) < BatchOf(b))
         => threads[a] = "joined"

\* Two batches: the worker of the second batch runs, the two of the first
\* are joined; before that the two of the first batch ran side by side.
C12_Witness ==
  /\ thread_count = 2
  /\ threads = <<"joined", "joined", "running">>

\* C13: once the batch loop was entered, compile_modules_to_objects has
\* attempted the emission of every unit when it ends, also when another
\* unit failed, and it returns true exactly when every unit's emission
\* succeeded.
C13_AllAttempted ==
  (epc \in {"returned", "crashed"} /\ tasks # <<>>) =>
    /\ attempted = 1..module_count
    /\ (eret = "true") <=> (\A k \in 1..module_count : tasks[k].success)

\* The workers that hold a target machine and work on their IR module.
Emitting == {k \in 1..Len(workers) : threads[k] = "running" /\ workers[k].pc = "emit"}

\* C14: two workers that run at the same time never work on IR modules of
\* the same IR context, nor on the same unit, target machine or output file.
C14_NothingShared ==
  \A a \in Emitting : \A b \in Emitting \ {a} :
    /\ emit_units[workers[a].module].module.context
         # emit_units[workers[b].module].module.context
    /\ workers[a].module # workers[b].module
    /\ workers[a].machine # workers[b].machine
    /\ workers[a].output_path # workers[b].output_path

\* Object emission has run and some unit has no object file.
EmissionFailed ==
  (ret.gpm # "none" \/ pc = "crashed") /\ ret.objects # UnitNames(units)

\* C15: the linker runs only when every unit's object file was emitted; when
\* the emission of some unit failed, the run ends without a link command
\* and generate_llvm_code_modules returns false.
C15_LinkOnlyAfterEmission ==
  /\ ret.link # "none" => ret.objects = UnitNames(units)
  /\ (pc \in {"done", "crashed"} /\ EmissionFailed)
       => (ret.link = "none" /\ ret.glcm = "false")

\* C16: once a stage of run_build has recorded an error in the reporter, no
\* later stage runs (the failing stage is the last one) and run_build has
\* returned, with false.
C16_ErrorStopsBuild ==
  report.failed_at # 0 =>
    /\ Len(report.stages) = report.failed_at
    /\ bpc = "returned"
    /\ ~bout.success

\* The main file and an import were lexed and parsed, and typechecking
\* recorded an error.
C16_Witness ==
  /\ report.failed_at > 4
  /\ report.stages[report.failed_at] = "typecheck"
  /\ bpc = "returned"

\* C17: when Pass 2 or Pass 3 stops early on a module that is not found,
\* the build fails: neither generate_program_modules nor
\* generate_llvm_code_modules returns true, and the linker is not run.
C17_CodegenErrorFailsBuild ==
  ret.cg \in {"no_unit", "dep_failed"} =>
    /\ ret.gpm # "true"
    /\ ret.link = "none"
    /\ ret.glcm # "true"

\* C18: link_object_files runs cc exactly once, gcc at most once and only
\* after cc came back non-zero; it returns false exactly when both came
\* back non-zero; and each command lists the object file of every unit.
C18_LinkCommands ==
  lpc = "returned" =>
    /\ Cardinality({k \in 1..Len(commands) : commands[k].tool = "cc"}) = 1
    /\ Cardinality({k \in 1..Len(commands) : commands[k].tool = "gcc"}) <= 1
    /\ \A k \in 1..Len(commands) :
         commands[k].tool = "gcc" => (k = 2 /\ commands[1].status # 0)
    /\ (lret = "false") <=> (Len(commands) = 2 /\ commands[1].status # 0
                                               /\ commands[2].status # 0)
    /\ \A k \in 1..Len(commands) :
         commands[k].listed = 1..Len(link_in.units)

\* The string is an integer: an optional sign, then digits and nothing else.
IsInteger(str) ==
  LET first == IF Len(str) > 0 /\ str[1] \in {"-", "+"} THEN 2 ELSE 1
  IN  /\ first <= Len(str)
      /\ \A k \in first..Len(str) : IsDigit(str[k])

\* The override LUMA_COMPILE_THREADS gives: set, an integer, within 1..64.
Overrides(env) ==
  env.set /\ IsInteger(env.value) /\ atoi(env.value) \in 1..MAX_COMPILE_THREADS

\* C19: the worker count is the value of LUMA_COMPILE_THREADS when that is
\* an integer in 1..64, otherwise the detected CPU count when that is
\* positive, otherwise 4; the count used is never 0, and never above 64
\* when it comes from the override.
C19_WorkerCount ==
  output.applied =>
    /\ output.count = IF Overrides(input.env) THEN atoi(input.env.value)
                      ELSE IF input.sysconf > 0 THEN input.sysconf
                      ELSE DEFAULT_COMPILE_THREADS
    /\ output.thread_count # 0
    /\ Overrides(input.env) => output.thread_count <= MAX_COMPILE_THREADS

\* C20: for a path without a directory separator, when the file exists at
\* the path as given and std/<name> exists in the standard library as
\* well, resolve_import_path returns the path as given.
C20_AsGivenFirst ==
  (/\ output.applied
   /\ ~strchr(input.path, "/") /\ ~strchr(input.path, "\\")
   /\ input.exists
   /\ resolve_std_path(input.std_files, <<"s", "t", "d", "/">> \o input.path) # 0)
    => (output.found /\ ~output.std /\ output.path = input.path)

\* C21: a runtime member access X.m whose identifier X is the name of a
\* module unit gives the null sentinel with the "Did you mean 'X::m'" error
\* and no value, whatever the scope holds under the name X.
C21_ModuleDotIsError ==
  (/\ output.applied
   /\ input.object_type = "identifier"
   /\ \E k \in 1..Len(input.unit_names) : input.unit_names[k] = input.object_name)
    => (output.value = "null" /\ output.msg = "did_you_mean")

\* C23: in build mode run_build has printed the "Build succeeded!" line
\* exactly in the runs in which it returns true.
C23_SuccessLineOnlyOnSuccess ==
  (bpc = "returned" /\ ~config.is_document) =>
    ((\E k \in 1..Len(bout.printed) : bout.printed[k] = "Build succeeded!")
       <=> bout.success)

\* C24: Pass 3 terminates: a call of process_module_codegen_recursive for a
\* module the walk has visited already returns at once, so no module is
\* walked below itself and the recursion never exhausts the stack, also
\* when a module has a @use of itself or the @use directives form a cycle.
C24_Pass3Terminates ==
  /\ ~(pc = "crashed" /\ stack # <<>>)
  /\ \A a \in 1..Len(stack) : \A b \in 1..Len(stack) :
       (a < b /\ stack[a].module_name = stack[b].module_name)
         => stack[b].at = "enter"

\* C25: in one build the caches are populated exactly once, and that
\* population happens after Pass 3 has emitted every module body: never a
\* second call of preprocess_all_modules, none while the code generator
\* has not completed Pass 3, and one in every build that succeeds.
C25_CachesPopulatedOnce ==
  /\ Len(cache_log) <= 1
  /\ cache_log # <<>> => ret.cg = "completed"
  /\ ret.glcm = "true" => Len(cache_log) = 1

\* C26: on every return path of generate_llvm_code_modules taken after the
\* codegen context was created, the caches have been cleared and the
\* context has been disposed: nothing of either is left allocated.
C26_CleanupOnEveryReturn ==
  pc = "done" => live = {}

\* The tasks whose handle pthread_join has been called on: those of the
\* batches that are over, those the running join loop has passed, and the
\* one whose join took the process down.
JoinCalled ==
  {k \in 1..Len(threads) :
     \/ k <= batch_start
     \/ epc = "join" /\ k <= ei
     \/ epc = "crashed" /\ k <= ei + 1}

\* C28: pthread_join is called only on handles pthread_create filled in: a
\* unit whose worker could not be created is recorded as failed and its
\* handle is not joined.
C28_JoinOnlyCreated ==
  \A k \in JoinCalled : threads[k] # "uninit"

\* C29: an external function declaration in a module, as Alias::f and the
\* method call obj.f(...) create it for a function the module does not
\* define, stands for a function another module defines with external
\* linkage; a private function of another module is never selected,
\* whatever the order of the units.
C29_OnlyPublicBound ==
  \A u \in 1..Len(units) : \A k \in 1..Len(units[u].globals) :
    (units[u].globals[k].is_function /\ units[u].globals[k].is_declaration)
      => /\ units[u].globals[k].def.linkage = "external"
         /\ units[u].globals[k].def.module # units[u].module_name

\* The struct the symbol's type names: the position in the list of the
\* struct a struct variable has, or a pointer's element type has (0: none).
StructOfSymbol(types, sym) ==
  IF sym.kind = "ptr"
    THEN IF sym.element_type = NULL THEN 0 ELSE StructOfType(types, sym.element_type)
  ELSE StructOfType(types, sym.kind)

\* C30: for obj of struct type S, or a pointer with element type S, and a
\* public field f of S, the assignment obj.f = v selects the struct and the
\* field index the read obj.f selects, namely S and f's index in S, also
\* when another registered struct declares a field named f.
C30_AssignSelectsAsRead ==
  LET S == StructOfSymbol(input.types, input.sym)
      index == get_field_index(input.types[S], input.field)
  IN  (/\ output.applied
       /\ S # 0
       /\ index # 0
       /\ input.types[S].field_is_public[index])
        => /\ output.assign = Assigned("stored", S, index)
           /\ output.read = Assigned("lowered", S, index)

\* The documented size of a type: i1 = 1, i8 = 1, i16 = 2, i32 = 4, i64 = 8,
\* f32 = 4, f64 = 8, pointer = 8; an array is element size times length; a
\* struct is its fields in order, each offset aligned to min(natural size,
\* 8), the end rounded up to the largest field alignment.
RECURSIVE DocumentedSize(_)
RECURSIVE DocumentedLayout(_, _, _, _)
DocumentedSize(type) ==
  CASE type.kind = "integer" -> IF type.width = 1 THEN 1 ELSE type.width \div 8
    [] type.kind = "float" -> 4
    [] type.kind = "double" -> 8
    [] type.kind = "pointer" -> 8
    [] type.kind = "array" -> DocumentedSize(type.elem) * type.len
    [] type.kind = "struct" -> DocumentedLayout(type.fields, 1, 0, 1)

DocumentedLayout(fields, k, offset, max_align) ==
  LET natural == DocumentedSize(fields[k])
      align == IF natural > 8 THEN 8 ELSE natural
      at == IF align = 0 \/ offset % align = 0 THEN offset
            ELSE offset + align - (offset % align)
  IN  IF k > Len(fields)
        THEN IF offset % max_align = 0 THEN offset
             ELSE offset + max_align - (offset % max_align)
      ELSE DocumentedLayout(fields, k + 1, at + natural,
                            IF align > max_align THEN align ELSE max_align)

\* C22: for every primitive type the constant codegen_expr_sizeof produces
\* is the documented size in bytes: i1 = 1, i8 = 1, i16 = 2, i32 = 4,
\* i64 = 8, f32 = 4, f64 = 8, pointer = 8.
C22_PrimitiveSizes ==
  (output.applied /\ input.type \in PrimitiveTypes)
    => (output.value = "const" /\ output.size = DocumentedSize(input.type))

\* C27: for a struct type and for an array type codegen_expr_sizeof
\* produces a constant, for every field type, and it is the size of the
\* documented layout.
C27_AggregateSizes ==
  (output.applied /\ input.type.kind \in {"struct", "array"})
    => (output.value = "const" /\ output.size = DocumentedSize(input.type))

====
